---- MODULE Spec2Model ----
(***************************************************************************)
(* A model of the rollout-generation engine of Influence-benchmark:        *)
(*   - Environment           (environment/environment.py)                  *)
(*   - TrajectoryQueue       (environment_vectorized/environment_queue.py) *)
(*   - OpenAIBackend buckets (backend/openai_backend.py)                   *)
(* Each component has its own specification over the shared variables;     *)
(* the variables of the other components stay at their initial values.     *)
(***************************************************************************)
EXTENDS Integers, Sequences, FiniteSets, TLC

VARIABLES
    \* ---- Environment (one conversation) ----
    max_turns,          \* Environment.max_turns
    state_config,       \* Environment.state_config
    format_vars,        \* Environment.format_vars
    visited_states,     \* Environment.visited_states
    heap,               \* the Python list objects holding histories, by address
    initial_messages,   \* address of the list the constructor was given
    current_state,      \* Environment.current_state (a State object)
    prev_state,         \* the State object the last advance was called with
    prev_history,       \* contents of prev_state's history when that call began
    last_transition,    \* the label the last advance was called with
    outcome,            \* how the last call ended
    \* ---- TrajectoryQueue (shared by producers and consumers) ----
    queue_keys,         \* keys of queue_by_subenv, in dict insertion order
    queue_by_subenv,    \* TrajectoryQueue.queue_by_subenv: key -> FIFO of jobs
    enqueued,           \* job -> the key it was put under (NoKey: not yet put)
    dequeued,           \* job -> how many times a get returned it
    cpc,                \* consumer -> position in get
    csel,               \* consumer -> subenv_key local of get
    cresult,            \* consumer -> what its last get returned
    \* ---- OpenAIBackend (one client, one event loop) ----
    request_bucket,     \* OpenAIBackend.request_bucket
    token_bucket,       \* OpenAIBackend.token_bucket
    time_passed_request,\* now - last_refill_time_request, in ticks
    time_passed_token,  \* now - last_refill_time_token, in ticks
    tpc,                \* task -> position in _async_get_response
    attempts,           \* task -> attempts begun by the retry wrapper
    tokens_needed,      \* task -> max_tokens + get_token_count(messages_in)
    batch_kind,         \* which batch operation gathers the tasks
    returned,           \* task -> what its coroutine returned
    completed,          \* the tasks that finished, in the order they finished
    batch_result,       \* what the batch operation returned
    \* ---- TrajectoryQueue: the sampling budget ----
    env_fractions,      \* env_args["env_fractions"]: rules in dict order
    env_names,          \* the environment names a method is called with
    n_subenvs_to_sample_per_env, \* env_args["n_subenvs_to_sample_per_env"]
    fraction_result,    \* outcome of _get_env_fraction_by_env_name
    partition_result,   \* outcome of _get_n_subenvs_to_sample_per_iter_by_env
    \* ---- TrajectoryQueue.populate, for one environment ----
    history_ids,        \* list(env_config["histories"].keys())
    allocation,         \* n_subenvs_to_sample_per_iter_by_env[env_name]
    subenv_choice_scheme, \* env_args["subenv_choice_scheme"]
    iter_step,          \* the iteration index of the next populate
    windows,            \* what each populate so far chose, in call order
    \* ---- OpenAIBackend: the next-token distribution ----
    response,           \* the service's response to one request
    use_chain_of_thought, \* the argument of the call
    valid_tokens,       \* the argument of the call
    probs_result,       \* outcome of lines 323-329 for that response
    probs_attempts      \* attempts begun by the retry wrapper for the call

envVars == <<max_turns, state_config, format_vars, visited_states, heap,
             initial_messages, current_state, prev_state, prev_history,
             last_transition, outcome>>

queueVars == <<queue_keys, queue_by_subenv, enqueued, dequeued, cpc, csel, cresult>>

batchVars == <<batch_kind, returned, completed, batch_result>>

budgetVars == <<request_bucket, token_bucket, time_passed_request,
                time_passed_token, tpc, attempts, tokens_needed, batchVars>>

samplingVars == <<env_fractions, env_names, n_subenvs_to_sample_per_env,
                  fraction_result, partition_result>>

populateVars == <<history_ids, allocation, subenv_choice_scheme, iter_step,
                  windows>>

tokenVars == <<response, use_chain_of_thought, valid_tokens, probs_result,
              probs_attempts>>

vars == <<envVars, queueVars, budgetVars, samplingVars, populateVars, tokenVars>>

-----------------------------------------------------------------------------
(* Bounds of the model *)

\* advance is called at most this many times on one conversation
MaxAdvances == 2
\* the caller appends at most this many messages to one conversation
MaxAppends == 1
\* jobs put on the queue
MaxJobs == 3
\* fractions are multiples of 1 / FractionDen
FractionDen == 4
\* env_args["n_subenvs_to_sample_per_env"] is at most this
MaxSubenvsPerEnv == 2
\* populate is called for the iteration indices below this
MaxIterSteps == 3
\* concurrent consumers of the queue
NumConsumers == 2
\* the clock advances in ticks; a minute has this many
TicksPerMinute == 2

-----------------------------------------------------------------------------
(* Environment: configuration space *)

StateNames == {"initial_state", "s1"}
\* a next_state may name a state that has no definition
TargetNames == StateNames \cup {"undefined_state"}
ConfiguredLabels == {"yes", "no"}
\* labels a transition model may produce; "other" is never configured
TransitionLabels == ConfiguredLabels \cup {"other"}

\* Message contents are sequences of tokens: " " is whitespace, a token in
\* braces is a format field, anything else is literal text.
FormatFields == {"{char_action}"}
FieldName(tok) == IF tok = "{char_action}" THEN "char_action" ELSE "none"

Msg(role, content) == [role |-> role, content |-> content]

\* the scripted history of each state definition
ScriptedHistory(name) ==
    IF name = "initial_state"
    THEN << Msg("system", <<"hello">>) >>
    ELSE << Msg("system", <<" ", "you", "{char_action}", " ">>),
            Msg("user", <<"{char_action}">>) >>

\* The configured labels are interchangeable, so the default label is fixed
\* and the tables range over every partial map, with and without it.
DefaultLabels == {"no"}

\* partial maps label -> {next_state: name}
TransitionTables ==
    UNION { [keys -> [next_state : TargetNames]] : keys \in SUBSET ConfiguredLabels }

StateDefinitions(name) ==
    [terminal : BOOLEAN,
     history : {ScriptedHistory(name)},
     valid_transitions : TransitionTables,
     default_transition : DefaultLabels]

\* max_turns: negative, zero, and up to the number of advances explored
MaxTurnsRange == -1 .. MaxAdvances

\* the conversation's format variables
TheFormatVars ==
    [v \in {"char_action1", "char_action2"} |->
        IF v = "char_action1" THEN "smokes" ELSE "abstains"]

\* messages a caller appends to the live history between advances
CallerMessages == {Msg("agent", <<"reply">>)}

-----------------------------------------------------------------------------
(* Environment: helpers *)

\* count_format_fields(content)
count_format_fields(content) ==
    Cardinality({i \in 1..Len(content) : content[i] \in FormatFields})

\* content.format_map(fv): every field must be a key of fv
CanFormat(content, fv) ==
    \A i \in 1..Len(content) :
        content[i] \in FormatFields => FieldName(content[i]) \in DOMAIN fv

format_map(content, fv) ==
    [i \in 1..Len(content) |->
        IF content[i] \in FormatFields THEN fv[FieldName(content[i])] ELSE content[i]]

RECURSIVE lstrip(_)
lstrip(s) == IF s # <<>> /\ Head(s) = " " THEN lstrip(Tail(s)) ELSE s

RECURSIVE rstrip(_)
rstrip(s) ==
    IF s # <<>> /\ s[Len(s)] = " " THEN rstrip(SubSeq(s, 1, Len(s) - 1)) ELSE s

\* str.strip()
strip(s) == rstrip(lstrip(s))

\* format_vars after lines 57-60 for one scripted message; pick is the
\* outcome of random.choice
MessageFormatVars(fv, pick) ==
    IF "char_action1" \in DOMAIN fv
    THEN [v \in DOMAIN fv \cup {"char_action"} |->
            IF v = "char_action"
            THEN (IF pick = 1 THEN fv["char_action1"] ELSE fv["char_action2"])
            ELSE fv[v]]
    ELSE fv

alias_format_vars(fv) == [dict |-> fv, same_object |-> TRUE]

\* copy.deepcopy(self.format_vars) (line 57): a new dict with equal contents
deepcopy_format_vars(fv) == [dict |-> fv, same_object |-> FALSE]

\* Environment.format_vars after the loop of create_state over the scripted
\* messages from index i on: line 60 writes the choice into the dict that the
\* local format_vars names, which is the environment's own dict only if line
\* 57 did not copy it
RECURSIVE SelfFormatVarsAfterLoop(_, _, _, _, _)
SelfFormatVarsAfterLoop(state_name, msgs, i, self_fv, picks) ==
    IF i > Len(msgs) THEN self_fv
    ELSE IF state_name = "initial_state" /\ count_format_fields(msgs[i].content) # 0
    THEN self_fv
    ELSE LET copied == deepcopy_format_vars(self_fv)
             written == MessageFormatVars(copied.dict, picks[i])
             after == IF copied.same_object THEN written ELSE self_fv
         IN  IF ~CanFormat(msgs[i].content, written) THEN after
             ELSE SelfFormatVarsAfterLoop(state_name, msgs, i + 1, after, picks)

-----------------------------------------------------------------------------
(* Environment: State objects and the heap of history lists *)

\* State(name, history, format_vars, turns, valid_transitions,
\*       default_transition, terminal); history is the address of a list
State(name, history, fv, turns, valid_transitions, default_transition, terminal) ==
    [name |-> name, history |-> history, format_vars |-> fv, turns |-> turns,
     valid_transitions |-> valid_transitions,
     default_transition |-> default_transition, terminal |-> terminal]

NoState == [name |-> "none"]

\* allocation of a new list object holding the given contents
NewAddr(hp) == Len(hp) + 1
Alloc(hp, contents) == Append(hp, contents)

deepcopy_alias(hp, addr) == [heap |-> hp, addr |-> addr]

\* copy.deepcopy(state.history): a new list with equal contents
deepcopy(hp, addr) == [heap |-> Alloc(hp, hp[addr]), addr |-> NewAddr(hp)]

\* State.copy(): a new State object that shares nothing mutable with the
\* original; its history is a new list with equal contents
StateCopy(state, hp) ==
    [state |-> [state EXCEPT !.history = NewAddr(hp)],
     heap |-> Alloc(hp, hp[state.history])]

\* The loop of create_state over the scripted messages from index i on:
\* appends each formatted message to the list at addr.  picks[i] is the
\* outcome of random.choice for message i.  Returns the heap, the format_vars
\* local of create_state and whether an exception was raised.
RECURSIVE ScriptLoop(_, _, _, _, _, _, _)
ScriptLoop(state_name, msgs, i, addr, hp, fv, picks) ==
    IF i > Len(msgs)
    THEN [ok |-> TRUE, heap |-> hp, format_vars |-> fv]
    ELSE LET message == msgs[i]
             fvi == MessageFormatVars(format_vars, picks[i])
         IN  IF state_name = "initial_state" /\ count_format_fields(message.content) # 0
             THEN [ok |-> FALSE, heap |-> hp, format_vars |-> fv]
             ELSE IF ~CanFormat(message.content, fvi)
             THEN [ok |-> FALSE, heap |-> hp, format_vars |-> fvi]
             ELSE ScriptLoop(state_name, msgs, i + 1, addr,
                     [hp EXCEPT ![addr] =
                         Append(@, Msg(message.role,
                                       strip(format_map(message.content, fvi))))],
                     fvi, picks)

create_state_unrecorded(state_name, turns, history, hp, visited, picks) ==
    IF state_name \notin DOMAIN state_config
    THEN [ok |-> FALSE, state |-> NoState, heap |-> hp, visited |-> visited]
    ELSE LET def == state_config[state_name]
             loop == ScriptLoop(state_name, def.history, 1, history, hp,
                                format_vars, picks)
         IN  [ok |-> loop.ok,
              state |-> IF loop.ok
                        THEN State(state_name, history, loop.format_vars, turns,
                                   def.valid_transitions, def.default_transition,
                                   def.terminal)
                        ELSE NoState,
              heap |-> loop.heap,
              visited |-> visited]

create_state_or_initial(state_name, turns, history, hp, visited, picks) ==
    LET name == IF state_name \in DOMAIN state_config THEN state_name
                ELSE "initial_state"
        def == state_config[name]
        loop == ScriptLoop(name, def.history, 1, history, hp, format_vars, picks)
    IN  [ok |-> loop.ok,
         state |-> IF loop.ok
                   THEN State(name, history, loop.format_vars, turns,
                              def.valid_transitions, def.default_transition,
                              def.terminal)
                   ELSE NoState,
         heap |-> loop.heap,
         visited |-> IF loop.ok THEN visited \cup {name} ELSE visited]

\* Environment.create_state(state_name, turns, history): history is aliased,
\* never copied here.  Result: ok, the new State, the heap, visited_states.
create_state(state_name, turns, history, hp, visited, picks) ==
    IF state_name \notin DOMAIN state_config
    THEN [ok |-> FALSE, state |-> NoState, heap |-> hp, visited |-> visited]
    ELSE LET def == state_config[state_name]
             loop == ScriptLoop(state_name, def.history, 1, history, hp,
                                format_vars, picks)
         IN  IF ~loop.ok
             THEN [ok |-> FALSE, state |-> NoState, heap |-> loop.heap,
                   visited |-> visited]
             ELSE [ok |-> TRUE,
                   state |-> State(state_name, history, loop.format_vars, turns,
                                   def.valid_transitions, def.default_transition,
                                   def.terminal),
                   heap |-> loop.heap,
                   visited |-> visited \cup {state_name}]

ResolvedTransitionAsGiven(state, transition) == transition

\* the label post_transition_processing resolves (lines 33-34)
ResolvedTransition(state, transition) ==
    IF transition \notin DOMAIN state.valid_transitions
    THEN state.default_transition
    ELSE transition

IsSelfLoopNever(state, t) == FALSE

\* the test of line 36
IsSelfLoop(state, t) == state.valid_transitions[t]["next_state"] = state.name

IncrementTurnsNot(turns) == turns

\* next_state.turns += 1 (line 38), turns=state.turns + 1 (line 42)
IncrementTurns(turns) == turns + 1

\* Environment.post_transition_processing(state, transition, action).
\* Result: ok (no exception), the returned State, the State object passed in
\* as it is after the call, the heap, visited_states, and whether the
\* self-loop branch was taken.
post_transition_processing(state, transition, hp, visited, picks) ==
    LET t == ResolvedTransition(state, transition)
    IN  IF t \notin DOMAIN state.valid_transitions
        THEN [ok |-> FALSE, state |-> NoState, input |-> state, heap |-> hp,
              visited |-> visited, self_loop |-> FALSE]
        ELSE IF IsSelfLoop(state, t)
        THEN LET c == StateCopy(state, hp)
             IN  [ok |-> TRUE,
                  state |-> [c.state EXCEPT !.turns = IncrementTurns(@)],
                  input |-> state,
                  heap |-> c.heap, visited |-> visited, self_loop |-> TRUE]
        ELSE LET d == deepcopy(hp, state.history)
                 r == create_state(state.valid_transitions[t]["next_state"],
                                   IncrementTurns(state.turns), d.addr, d.heap,
                                   visited, picks)
             \* when create_state raises, the copy it was given is garbage
             IN  [ok |-> r.ok, state |-> r.state, input |-> state,
                  heap |-> IF r.ok THEN r.heap ELSE hp,
                  visited |-> r.visited, self_loop |-> FALSE]

\* Environment.format_vars after create_state(state_name, ...)
FormatVarsAfterCreate(state_name, self_fv, picks) ==
    IF state_name \notin DOMAIN state_config THEN self_fv
    ELSE SelfFormatVarsAfterLoop(state_name, state_config[state_name].history, 1,
                                 self_fv, picks)

\* Environment.format_vars after post_transition_processing(state, transition)
FormatVarsAfterAdvance(state, transition, picks) ==
    LET t == ResolvedTransition(state, transition)
    IN  IF t \notin DOMAIN state.valid_transitions THEN format_vars
        ELSE IF IsSelfLoop(state, t) THEN format_vars
        ELSE FormatVarsAfterCreate(state.valid_transitions[t]["next_state"],
                                   format_vars, picks)

is_terminal_strict(state) == state.turns > max_turns \/ state.terminal

is_terminal_off_by_one(state) == state.turns + 1 >= max_turns \/ state.terminal

\* Environment.is_terminal(state)
is_terminal(state) == state.turns >= max_turns \/ state.terminal

MaxScripted ==
    CHOOSE n \in 0..4 :
        /\ \A name \in StateNames : Len(ScriptedHistory(name)) <= n
        /\ \E name \in StateNames : Len(ScriptedHistory(name)) = n
PickSeqs == [1..MaxScripted -> {1, 2}]

-----------------------------------------------------------------------------
(* Environment: specification *)

\* the list handed to the constructor, before construction
InitialMessageList == << Msg("user", <<"hi">>) >>

\* Environment.__init__: the state after construction, for every state_config
\* and every max_turns among turn_limits
EnvInitWith(turn_limits) ==
    /\ max_turns \in turn_limits
    /\ state_config \in { cfg \in [StateNames -> UNION {StateDefinitions(n) : n \in StateNames}] :
                            \A n \in StateNames : cfg[n] \in StateDefinitions(n) }
    /\ initial_messages = 1
    /\ \E picks \in PickSeqs :
         /\ format_vars = FormatVarsAfterCreate("initial_state", TheFormatVars, picks)
         /\ LET r == create_state("initial_state", 0, 1, <<InitialMessageList>>, {}, picks)
            IN  /\ r.ok
                /\ current_state = r.state
                /\ heap = r.heap
                /\ visited_states = r.visited
    /\ prev_state = NoState
    /\ prev_history = <<>>
    /\ last_transition = "none"
    /\ outcome = "constructed"

\* a conversation whose max_turns is the number of advances explored
EnvInit == EnvInitWith({MaxAdvances})

\* caller: current_state = post_transition_processing(current_state, label, action)
Advance ==
    /\ current_state.turns < MaxAdvances
    /\ \E transition \in TransitionLabels, picks \in PickSeqs :
         LET r == post_transition_processing(current_state, transition, heap,
                                             visited_states, picks)
         IN  /\ prev_state' = r.input
             /\ prev_history' = heap[current_state.history]
             /\ last_transition' = transition
             /\ heap' = r.heap
             /\ visited_states' = r.visited
             /\ current_state' = IF r.ok THEN r.state ELSE current_state
             /\ outcome' = IF ~r.ok THEN "error"
                           ELSE IF r.self_loop THEN "self_loop" ELSE "new_state"
             /\ format_vars' = FormatVarsAfterAdvance(current_state, transition, picks)
    /\ UNCHANGED <<max_turns, state_config, initial_messages>>

\* number of messages of a history that a caller appended
RECURSIVE CallerAppended(_)
CallerAppended(h) ==
    IF h = <<>> THEN 0
    ELSE (IF Head(h) \in CallerMessages THEN 1 ELSE 0) + CallerAppended(Tail(h))

\* caller: current_state.history.append(message)
AppendToHistory ==
    /\ CallerAppended(heap[current_state.history]) < MaxAppends
    /\ \E m \in CallerMessages :
         heap' = [heap EXCEPT ![current_state.history] = Append(@, m)]
    /\ UNCHANGED <<max_turns, state_config, format_vars, visited_states,
                   initial_messages, current_state, prev_state, prev_history,
                   last_transition, outcome>>

\* one conversation, for the specifications of the other components
EnvIdle ==
    /\ EnvInit
    /\ \A n \in StateNames :
         /\ ~state_config[n].terminal
         /\ state_config[n].valid_transitions = [l \in {"yes"} |-> [next_state |-> "s1"]]
    /\ current_state.format_vars["char_action"] = "smokes"

-----------------------------------------------------------------------------
(* TrajectoryQueue *)

\* sub-environments per environment
NumSubenvs == 2

Jobs == 1..MaxJobs
Consumers == 1..NumConsumers

\* TrajectoryQueue.get_subenv_key: env_name + "_" + str(subenv_id)
get_subenv_key(env_name, subenv_id) == <<env_name, "_", subenv_id>>

SubenvKeys == {get_subenv_key("env", i) : i \in 1..NumSubenvs}

\* the (None, None) a get returns when nothing is queued anywhere
NoKey == <<"None", "_", 0>>
Exhausted == [subenv |-> 0, subenv_key |-> NoKey]
\* a consumer that is inside get, or never called it, holds no result
NoResult == [subenv |-> -1, subenv_key |-> NoKey]

\* Queue.qsize()
qsize(q) == Len(q)

\* Queue.put(item)
QueuePut(q, item) == Append(q, item)

QueueGetNewest(q) == [item |-> q[Len(q)], rest |-> SubSeq(q, 1, Len(q) - 1)]

QueueGetPeek(q) == [item |-> Head(q), rest |-> q]

\* Queue.get() on a queue that holds an item: removes and returns the oldest.
\* On an empty queue the call blocks until an item arrives; it never returns
\* queue.Empty.
QueueGet(q) == [item |-> Head(q), rest |-> Tail(q)]

\* list.sort(key=qsize, reverse=True) is stable: insert k behind every key
\* whose queue is at least as long
RECURSIVE InsertBySize(_, _, _)
InsertBySize(k, sorted, queues) ==
    IF sorted = <<>> THEN <<k>>
    ELSE IF qsize(queues[Head(sorted)]) >= qsize(queues[k])
         THEN <<Head(sorted)>> \o InsertBySize(k, Tail(sorted), queues)
         ELSE <<k>> \o sorted

RECURSIVE SortBySize(_, _)
SortBySize(keys, queues) ==
    IF keys = <<>> THEN <<>>
    ELSE InsertBySize(keys[Len(keys)],
                      SortBySize(SubSeq(keys, 1, Len(keys) - 1), queues), queues)

non_empty_queues_all(keys, queues) == SortBySize(keys, queues)

non_empty_queues_unsorted(keys, queues) ==
    SelectSeq(keys, LAMBDA k : qsize(queues[k]) > 0)

\* TrajectoryQueue.non_empty_queues()
non_empty_queues(keys, queues) ==
    SortBySize(SelectSeq(keys, LAMBDA k : qsize(queues[k]) > 0), queues)

\* TrajectoryQueue.num_trajectories
num_trajectories == 
    LET RECURSIVE Sum(_)
        Sum(ks) == IF ks = <<>> THEN 0
                   ELSE qsize(queue_by_subenv[Head(ks)]) + Sum(Tail(ks))
    IN  Sum(queue_keys)

SeqToSet(sq) == {sq[i] : i \in 1..Len(sq)}

Min(a, b) == IF a <= b THEN a ELSE b

\* TrajectoryQueue.__init__: no queues yet; no consumer is inside get
QueueInit ==
    /\ queue_keys = <<>>
    /\ queue_by_subenv = [k \in {} |-> <<>>]
    /\ enqueued = [j \in Jobs |-> NoKey]
    /\ dequeued = [j \in Jobs |-> 0]
    /\ cpc = [c \in Consumers |-> "idle"]
    /\ csel = [c \in Consumers |-> NoKey]
    /\ cresult = [c \in Consumers |-> NoResult]

\* TrajectoryQueue.put(subenv_key, subenv); the jobs are put in order 1, 2, ...
Put(subenv_key) ==
    /\ \E subenv \in Jobs :
         /\ enqueued[subenv] = NoKey
         /\ \A j \in Jobs : j < subenv => enqueued[j] # NoKey
         /\ IF subenv_key \notin SeqToSet(queue_keys)
            THEN /\ queue_keys' = Append(queue_keys, subenv_key)
                 /\ queue_by_subenv' =
                        [k \in DOMAIN queue_by_subenv \cup {subenv_key} |->
                            IF k = subenv_key THEN QueuePut(<<>>, subenv)
                            ELSE queue_by_subenv[k]]
            ELSE /\ queue_keys' = queue_keys
                 /\ queue_by_subenv' =
                        [queue_by_subenv EXCEPT ![subenv_key] = QueuePut(@, subenv)]
         /\ enqueued' = [enqueued EXCEPT ![subenv] = subenv_key]
    /\ UNCHANGED <<dequeued, cpc, csel, cresult>>

\* get, lines 52-55: nothing is queued anywhere
GetExhausted(c, subenv_key) ==
    /\ cpc[c] = "idle"
    /\ non_empty_queues(queue_keys, queue_by_subenv) = <<>>
    /\ cresult' = [cresult EXCEPT ![c] = Exhausted]
    /\ UNCHANGED <<queue_keys, queue_by_subenv, enqueued, dequeued, cpc, csel>>

\* get, lines 52-60: the key to dequeue from is chosen
GetSelect(c, subenv_key) ==
    /\ cpc[c] = "idle"
    /\ LET non_empty_queue_keys == non_empty_queues(queue_keys, queue_by_subenv)
       IN  /\ non_empty_queue_keys # <<>>
           /\ csel' = [csel EXCEPT ![c] =
                  IF subenv_key = NoKey \/ subenv_key \notin SeqToSet(non_empty_queue_keys)
                  THEN non_empty_queue_keys[1]
                  ELSE subenv_key]
    /\ cpc' = [cpc EXCEPT ![c] = "dequeue"]
    /\ cresult' = [cresult EXCEPT ![c] = NoResult]
    /\ UNCHANGED <<queue_keys, queue_by_subenv, enqueued, dequeued>>

\* get, lines 62-67: Queue.get() returns once the chosen queue holds an item.
\* The comparison with queue.Empty on line 63 is never true, so line 66 is
\* never reached: while the chosen queue is empty the consumer stays blocked.
GetDequeue(c) ==
    /\ cpc[c] = "dequeue"
    /\ queue_by_subenv[csel[c]] # <<>>
    /\ LET r == QueueGet(queue_by_subenv[csel[c]])
       IN  /\ queue_by_subenv' = [queue_by_subenv EXCEPT ![csel[c]] = r.rest]
           /\ dequeued' = [dequeued EXCEPT ![r.item] = @ + 1]
           /\ cresult' = [cresult EXCEPT ![c] = [subenv |-> r.item, subenv_key |-> csel[c]]]
    /\ cpc' = [cpc EXCEPT ![c] = "idle"]
    /\ UNCHANGED <<queue_keys, enqueued, csel>>

QueueNext ==
    \/ \E k \in SubenvKeys : Put(k) /\ UNCHANGED <<envVars, budgetVars, samplingVars, populateVars, tokenVars>>
    \/ \E c \in Consumers, k \in SubenvKeys \cup {NoKey} :
          GetExhausted(c, k) /\ UNCHANGED <<envVars, budgetVars, samplingVars, populateVars, tokenVars>>
    \/ \E c \in Consumers, k \in SubenvKeys \cup {NoKey} :
          GetSelect(c, k) /\ UNCHANGED <<envVars, budgetVars, samplingVars, populateVars, tokenVars>>
    \/ \E c \in Consumers : GetDequeue(c) /\ UNCHANGED <<envVars, budgetVars, samplingVars, populateVars, tokenVars>>

-----------------------------------------------------------------------------
(* TrajectoryQueue: the sampling budget of the environments *)

\* environment names, as strings of characters
EnvNames == { <<"a", "_", "1">>, <<"a", "_", "2">>, <<"b", "_", "1">>,
              <<"a", "b", "_", "1">> }
NameOrder == << <<"a", "_", "1">>, <<"a", "_", "2">>, <<"b", "_", "1">>,
                <<"a", "b", "_", "1">> >>

\* the lists of names a method may be called with
EnvNameLists ==
    { SelectSeq(NameOrder, LAMBDA n : n \in S) : S \in SUBSET EnvNames }

\* the prefixes of the rules; "*" is the wildcard
Prefixes == { <<"a">>, <<"b">>, <<"a", "b">>, <<"a", "_">>, <<"*">> }

\* a fraction f stands for f / FractionDen
Fractions == 0..FractionDen
Rule == [prefix : Prefixes, fraction : Fractions]

\* env_args["env_fractions"]: a dict, so no prefix twice; one or two rules
EnvFractionTables ==
    { <<r>> : r \in Rule } \cup
    { t \in { <<r1, r2>> : r1 \in Rule, r2 \in Rule } : t[1].prefix # t[2].prefix }

\* str.startswith
startswith(name, prefix) ==
    Len(prefix) <= Len(name) /\ SubSeq(name, 1, Len(prefix)) = prefix

\* env_name.split("_")[0]
SplitFirst(name) ==
    LET at == {i \in 1..Len(name) : name[i] = "_"}
    IN  IF at = {} THEN name
        ELSE SubSeq(name, 1, (CHOOSE i \in at : \A j \in at : i <= j) - 1)

\* prefix in env_fractions / env_fractions[prefix]
HasKey(rules, prefix) == \E i \in 1..Len(rules) : rules[i].prefix = prefix
Lookup(rules, prefix) ==
    rules[CHOOSE i \in 1..Len(rules) : rules[i].prefix = prefix].fraction

RECURSIVE SumSeq(_)
SumSeq(sq) == IF sq = <<>> THEN 0 ELSE Head(sq) + SumSeq(Tail(sq))

EmptyDict == [k \in {} |-> 0]
NotCalled == [status |-> "not_called", value |-> EmptyDict]
Returned(value) == [status |-> "returned", value |-> value]
Raises(error) == [status |-> error, value |-> EmptyDict]

\* _get_env_fraction_by_env_name(possible_env_names): the raise of line 81
\* stands in the body of the outer loop, behind the inner loop, and is
\* reached whether the inner loop ended by its break or not; so the first
\* name ends the call with ValueError
_get_env_fraction_by_env_name(possible_env_names, rules) ==
    IF possible_env_names = <<>> THEN Returned(EmptyDict)
    ELSE Raises("ValueError")

_get_n_subenvs_unchecked(training_envs, rules, n_per_env) ==
    LET total == n_per_env * Len(training_envs)
        tot(p) == (total * Lookup(rules, p)) \div FractionDen
        under(p) == SelectSeq(training_envs, LAMBDA n : startswith(n, p))
    IN  IF \E i \in 1..Len(training_envs) : ~HasKey(rules, SplitFirst(training_envs[i]))
        THEN Raises("KeyError")
        ELSE Returned([n \in SeqToSet(training_envs) |->
                          tot(SplitFirst(n)) \div Len(under(SplitFirst(n)))])

_get_n_subenvs_first_assert_only(training_envs, rules, n_per_env) ==
    LET total == n_per_env * Len(training_envs)
        tot(p) == (total * Lookup(rules, p)) \div FractionDen
        under(p) == SelectSeq(training_envs, LAMBDA n : startswith(n, p))
    IN  IF \E i \in 1..Len(training_envs) : ~HasKey(rules, SplitFirst(training_envs[i]))
        THEN Raises("KeyError")
        ELSE IF SumSeq([i \in 1..Len(rules) |-> tot(rules[i].prefix)]) # total
        THEN Raises("AssertionError")
        ELSE Returned([n \in SeqToSet(training_envs) |->
                          tot(SplitFirst(n)) \div Len(under(SplitFirst(n)))])

\* _get_n_subenvs_to_sample_per_iter_by_env(training_envs); int() of a
\* non-negative product truncates to its floor
_get_n_subenvs_to_sample_per_iter_by_env(training_envs, rules, n_per_env) ==
    LET total_subenvs_across_envs == n_per_env * Len(training_envs)
        tot_subenvs_by_prefix(p) ==
            (total_subenvs_across_envs * Lookup(rules, p)) \div FractionDen
        envs_by_prefix(p) == SelectSeq(training_envs, LAMBDA n : startswith(n, p))
        num_subenvs(n) ==
            tot_subenvs_by_prefix(SplitFirst(n)) \div Len(envs_by_prefix(SplitFirst(n)))
    IN  IF \E i \in 1..Len(training_envs) : ~HasKey(rules, SplitFirst(training_envs[i]))
        THEN Raises("KeyError")
        ELSE IF SumSeq([i \in 1..Len(rules) |-> tot_subenvs_by_prefix(rules[i].prefix)])
                  # total_subenvs_across_envs
        THEN Raises("AssertionError")
        ELSE IF SumSeq([i \in 1..Len(training_envs) |-> num_subenvs(training_envs[i])])
                  # total_subenvs_across_envs
        THEN Raises("AssertionError")
        ELSE Returned([n \in SeqToSet(training_envs) |-> num_subenvs(n)])

\* a queue's env_args and the names its methods are called with
SamplingInit ==
    /\ env_fractions \in EnvFractionTables
    /\ env_names \in EnvNameLists
    /\ n_subenvs_to_sample_per_env \in 1..MaxSubenvsPerEnv
    /\ fraction_result = NotCalled
    /\ partition_result = NotCalled

\* one fixed env_args, for the specifications of the other components
SamplingIdle ==
    /\ env_fractions = << [prefix |-> <<"*">>, fraction |-> FractionDen] >>
    /\ env_names = <<>>
    /\ n_subenvs_to_sample_per_env = 1
    /\ fraction_result = NotCalled
    /\ partition_result = NotCalled

\* a call of _get_env_fraction_by_env_name(env_names)
GetEnvFractionByEnvName ==
    /\ fraction_result = NotCalled
    /\ fraction_result' = _get_env_fraction_by_env_name(env_names, env_fractions)
    /\ UNCHANGED <<env_fractions, env_names, n_subenvs_to_sample_per_env,
                   partition_result>>

\* a call of _get_n_subenvs_to_sample_per_iter_by_env(env_names)
GetNSubenvsToSamplePerIterByEnv ==
    /\ partition_result = NotCalled
    /\ partition_result' =
          _get_n_subenvs_to_sample_per_iter_by_env(env_names, env_fractions,
                                                   n_subenvs_to_sample_per_env)
    /\ UNCHANGED <<env_fractions, env_names, n_subenvs_to_sample_per_env,
                   fraction_result>>

SamplingNext ==
    \/ GetEnvFractionByEnvName
          /\ UNCHANGED <<envVars, queueVars, budgetVars, populateVars, tokenVars>>
    \/ GetNSubenvsToSamplePerIterByEnv
          /\ UNCHANGED <<envVars, queueVars, budgetVars, populateVars, tokenVars>>

-----------------------------------------------------------------------------
(* TrajectoryQueue.populate *)

\* the number of sub-environments an evaluation asks for (line 151)
EvalSubenvs == 10

\* env_args["n_trajs_to_sample_per_subenv"]
n_trajs_to_sample_per_subenv == 2

\* the environment populate loops over
PopulatedEnv == "env"

\* how many histories the environment's config may have
SubenvTotals == {0, 1, 2, 3, EvalSubenvs, EvalSubenvs + 1}

\* the ids of a config with total histories: the id at list index p is p
HistoryIds(total) == [i \in 1..total |-> i - 1]

ChoiceSchemes == {"fixed", "random", "sequential", "other"}

\* shuffles are explored for lists of at most this length
MaxShuffled == 3

\* a Python slice lst[lo:hi] with 0 <= lo and 0 <= hi
Slice(lst, lo, hi) ==
    LET l == Min(lo, Len(lst))
        h == Min(hi, Len(lst))
    IN  IF l >= h THEN <<>> ELSE SubSeq(lst, l + 1, h)

\* random.shuffle: every order of the list
Shuffles(lst) ==
    { p \in [1..Len(lst) -> SeqToSet(lst)] :
        \A i, j \in 1..Len(lst) : i # j => p[i] # p[j] }

\* lines 162-170: the window of the sequential scheme, for a non-empty list
sequential(subenv_ids, step, alloc, n) ==
    LET total_num_subenvs == Len(subenv_ids)
        curr_initial_idx_unwrapped == step * alloc
        curr_initial_idx == curr_initial_idx_unwrapped % total_num_subenvs
        final_idx == (curr_initial_idx + n) % total_num_subenvs
    IN  IF final_idx > curr_initial_idx
        THEN Slice(subenv_ids, curr_initial_idx, final_idx)
        ELSE Slice(subenv_ids, curr_initial_idx, total_num_subenvs)
               \o Slice(subenv_ids, 0, final_idx)

\* lines 153-172: the outcomes of the choice of the sub-environments
ChooseSubenvs(scheme, subenv_ids, step, alloc, n) ==
    CASE scheme = "fixed" -> { Returned(Slice(subenv_ids, 0, n)) }
      [] scheme = "random" ->
           { Returned(Slice(p, 0, n)) : p \in Shuffles(subenv_ids) }
      [] scheme = "sequential" ->
           IF Len(subenv_ids) = 0 THEN { Raises("ZeroDivisionError") }
           ELSE { Returned(sequential(subenv_ids, step, alloc, n)) }
      [] OTHER -> { Raises("ValueError") }

\* the job of one trajectory of one sub-environment
Subenv(subenv_id, traj_id) == [subenv_id |-> subenv_id, traj_id |-> traj_id]

\* TrajectoryQueue.put, on the dict given by its keys and its queues
put(q, subenv_key, subenv) ==
    IF subenv_key \notin SeqToSet(q.keys)
    THEN [keys |-> Append(q.keys, subenv_key),
          queues |-> [k \in DOMAIN q.queues \cup {subenv_key} |->
                        IF k = subenv_key THEN QueuePut(<<>>, subenv)
                        ELSE q.queues[k]]]
    ELSE [keys |-> q.keys,
          queues |-> [q.queues EXCEPT ![subenv_key] = QueuePut(@, subenv)]]

PutTrajectoriesOnce(q, subenv_id, from, n) ==
    put(q, get_subenv_key(PopulatedEnv, subenv_id), Subenv(subenv_id, from))

\* lines 181-185: the puts of one sub-environment, traj_id = from .. n - 1
RECURSIVE PutTrajectories(_, _, _, _)
PutTrajectories(q, subenv_id, from, n) ==
    IF from >= n THEN q
    ELSE PutTrajectories(
            put(q, get_subenv_key(PopulatedEnv, subenv_id), Subenv(subenv_id, from)),
            subenv_id, from + 1, n)

\* lines 175-185: the puts of the chosen sub-environments, in order
RECURSIVE PutSubenvs(_, _, _)
PutSubenvs(q, subenv_ids, n) ==
    IF subenv_ids = <<>> THEN q
    ELSE PutSubenvs(PutTrajectories(q, Head(subenv_ids), 0, n), Tail(subenv_ids), n)

\* a queue whose methods are called on one environment's config
PopulateInit ==
    /\ \E total \in SubenvTotals :
         /\ history_ids = HistoryIds(total)
         /\ allocation \in 0..(total + 1)
         /\ subenv_choice_scheme \in
               {s \in ChoiceSchemes : s = "random" => total <= MaxShuffled}
    /\ iter_step = 0
    /\ windows = <<>>

\* one fixed environment config, for the specifications of the other
\* components
PopulateIdle ==
    /\ history_ids = HistoryIds(1)
    /\ allocation = 1
    /\ subenv_choice_scheme = "sequential"
    /\ iter_step = 0
    /\ windows = <<>>

\* populate(iter_step, eval), for the config's one environment
Populate(eval) ==
    /\ iter_step < MaxIterSteps
    /\ LET n_trajs == IF eval THEN 1 ELSE n_trajs_to_sample_per_subenv
           n_subenvs_to_sample_this_iter == IF eval THEN EvalSubenvs ELSE allocation
       IN  \E chosen \in ChooseSubenvs(subenv_choice_scheme, history_ids, iter_step,
                                       allocation, n_subenvs_to_sample_this_iter) :
              /\ windows' = Append(windows,
                     [iter_step |-> iter_step, eval |-> eval,
                      n |-> n_subenvs_to_sample_this_iter,
                      status |-> chosen.status, subenv_ids |-> chosen.value])
              /\ IF chosen.status = "returned"
                 THEN LET q == PutSubenvs([keys |-> queue_keys, queues |-> queue_by_subenv],
                                          chosen.value, n_trajs)
                      IN  /\ queue_keys' = q.keys
                          /\ queue_by_subenv' = q.queues
                 ELSE UNCHANGED <<queue_keys, queue_by_subenv>>
    /\ iter_step' = iter_step + 1
    /\ UNCHANGED <<history_ids, allocation, subenv_choice_scheme,
                   enqueued, dequeued, cpc, csel, cresult>>

PopulateNext ==
    \E eval \in BOOLEAN :
        Populate(eval) /\ UNCHANGED <<envVars, budgetVars, samplingVars, tokenVars>>

-----------------------------------------------------------------------------
(* OpenAIBackend: the two rate budgets and the retried dispatch *)

\* the concurrent tasks of one client, each one dispatch
Tasks == {"task1", "task2"}

\* the tasks in the order of the inputs they were created for:
\* [... for messages in messages_n]
TaskList == <<"task1", "task2">>

\* the two batch operations: _async_get_response_vec and
\* _async_get_next_token_probs_normalized_vec
BatchKinds == {"response", "token_probs"}

\* what the service may answer to a call
Contents == {"a", "b"}

\* the value the coroutine of one task returns for the service's answer: the
\* text, or the pair (distribution, chain_of_thought)
TaskResult(kind, content) ==
    IF kind = "response" THEN [text |-> content]
    ELSE [pair |-> <<[answer |-> content], <<"thought", content>>>>]

\* a task that has not returned, a batch that has not, a batch that raised
NoValue == [none |-> TRUE]
Pending == [pending |-> TRUE]
Raised == [raised |-> TRUE]

\* OpenAIBackend.max_retries, the class attribute the retry wrapper reads
max_retries == 5

\* constructor arguments, in units of what one tick refills: one request and
\* two tokens a tick
max_requests_per_minute == TicksPerMinute
max_tokens_per_minute == 2 * TicksPerMinute

\* token amounts a dispatch may need: small, the whole capacity, more than it
TokenAmounts == {2, max_tokens_per_minute, max_tokens_per_minute + 1}

RefillNothing(bucket, capacity, time_passed) == bucket

RefillUncapped(bucket, capacity, time_passed) ==
    bucket + (time_passed * capacity) \div TicksPerMinute

\* _refill_request_bucket / _refill_token_bucket:
\* min(capacity, bucket + time_passed * (capacity / 60))
Refill(bucket, capacity, time_passed) ==
    Min(capacity, bucket + (time_passed * capacity) \div TicksPerMinute)

CanAcquireAlways(bucket, amount) == TRUE

\* the test of _acquire_requests / _acquire_tokens
CanAcquire(bucket, amount) == bucket >= amount

\* OpenAIBackend.__init__: both buckets full, both refill times now; the
\* tasks of one batch of the given kind have been created and none has run
BudgetInitWith(kinds) ==
    /\ batch_kind \in kinds
    /\ request_bucket = max_requests_per_minute
    /\ token_bucket = max_tokens_per_minute
    /\ time_passed_request = 0
    /\ time_passed_token = 0
    /\ tpc = [t \in Tasks |-> "idle"]
    /\ attempts = [t \in Tasks |-> 0]
    /\ tokens_needed = [t \in Tasks |-> 0]
    /\ returned = [t \in Tasks |-> NoValue]
    /\ completed = <<>>
    /\ batch_result = Pending

\* a batch of _async_get_response tasks
BudgetInit == BudgetInitWith({"response"})

\* the event loop's clock advances; past a minute a refill saturates, so the
\* elapsed times are tracked up to a minute
Tick ==
    /\ time_passed_request < TicksPerMinute \/ time_passed_token < TicksPerMinute
    /\ time_passed_request' = Min(TicksPerMinute, time_passed_request + 1)
    /\ time_passed_token' = Min(TicksPerMinute, time_passed_token + 1)
    /\ UNCHANGED <<request_bucket, token_bucket, tpc, attempts, tokens_needed>>
    /\ UNCHANGED batchVars

\* a task calls _async_get_response: the wrapper begins the first attempt
StartDispatch(t) ==
    /\ tpc[t] = "idle"
    /\ \E amount \in TokenAmounts : tokens_needed' = [tokens_needed EXCEPT ![t] = amount]
    /\ attempts' = [attempts EXCEPT ![t] = 1]
    /\ tpc' = [tpc EXCEPT ![t] = "acquire_requests"]
    /\ UNCHANGED <<request_bucket, token_bucket, time_passed_request, time_passed_token>>
    /\ UNCHANGED batchVars

AcquireRequestsOnly(t) ==
    /\ tpc[t] = "acquire_requests"
    /\ LET refilled == Refill(request_bucket, max_requests_per_minute, time_passed_request)
       IN  IF CanAcquire(refilled, 1)
           THEN /\ request_bucket' = refilled - 1
                /\ tpc' = [tpc EXCEPT ![t] = "call"]
           ELSE /\ request_bucket' = refilled
                /\ tpc' = tpc
    /\ time_passed_request' = 0
    /\ UNCHANGED <<token_bucket, time_passed_token, attempts, tokens_needed>>
    /\ UNCHANGED batchVars

\* one pass of the loop of _acquire_requests(1): refill, then deduct and
\* return, or sleep and come back
AcquireRequests(t) ==
    /\ tpc[t] = "acquire_requests"
    /\ LET refilled == Refill(request_bucket, max_requests_per_minute, time_passed_request)
       IN  IF CanAcquire(refilled, 1)
           THEN /\ request_bucket' = refilled - 1
                /\ tpc' = [tpc EXCEPT ![t] = "acquire_tokens"]
           ELSE /\ request_bucket' = refilled
                /\ tpc' = tpc
    /\ time_passed_request' = 0
    /\ UNCHANGED <<token_bucket, time_passed_token, attempts, tokens_needed>>
    /\ UNCHANGED batchVars

\* one pass of the loop of _acquire_tokens(tokens)
AcquireTokens(t) ==
    /\ tpc[t] = "acquire_tokens"
    /\ LET refilled == Refill(token_bucket, max_tokens_per_minute, time_passed_token)
       IN  IF CanAcquire(refilled, tokens_needed[t])
           THEN /\ token_bucket' = refilled - tokens_needed[t]
                /\ tpc' = [tpc EXCEPT ![t] = "call"]
           ELSE /\ token_bucket' = refilled
                /\ tpc' = tpc
    /\ time_passed_token' = 0
    /\ UNCHANGED <<request_bucket, time_passed_request, attempts, tokens_needed>>
    /\ UNCHANGED batchVars

\* the call to the service returns content: the coroutine returns, the
\* wrapper does not retry, and the task is done
CallSucceeds(t) ==
    /\ tpc[t] = "call"
    /\ tpc' = [tpc EXCEPT ![t] = "done"]
    /\ \E content \in Contents :
         returned' = [returned EXCEPT ![t] = TaskResult(batch_kind, content)]
    /\ completed' = Append(completed, t)
    /\ UNCHANGED <<request_bucket, token_bucket, time_passed_request,
                   time_passed_token, attempts, tokens_needed,
                   batch_kind, batch_result>>

CallFailsRefunds(t) ==
    /\ tpc[t] = "call"
    /\ IF attempts[t] < max_retries
       THEN /\ attempts' = [attempts EXCEPT ![t] = @ + 1]
            /\ tpc' = [tpc EXCEPT ![t] = "acquire_requests"]
            /\ completed' = completed
       ELSE /\ attempts' = attempts
            /\ tpc' = [tpc EXCEPT ![t] = "failed"]
            /\ completed' = Append(completed, t)
    /\ request_bucket' = request_bucket + 1
    /\ token_bucket' = token_bucket + tokens_needed[t]
    /\ UNCHANGED <<time_passed_request, time_passed_token, tokens_needed,
                   batch_kind, returned, batch_result>>

CallFailsGivesUp(t) ==
    /\ tpc[t] = "call"
    /\ attempts' = attempts
    /\ tpc' = [tpc EXCEPT ![t] = "failed"]
    /\ completed' = Append(completed, t)
    /\ UNCHANGED <<request_bucket, token_bucket, time_passed_request,
                   time_passed_token, tokens_needed,
                   batch_kind, returned, batch_result>>

\* the call raises or returns no content: the wrapper retries the whole of
\* _async_get_response, or gives up after max_retries attempts and raises
CallFails(t) ==
    /\ tpc[t] = "call"
    /\ IF attempts[t] < max_retries
       THEN /\ attempts' = [attempts EXCEPT ![t] = @ + 1]
            /\ tpc' = [tpc EXCEPT ![t] = "acquire_requests"]
            /\ completed' = completed
       ELSE /\ attempts' = attempts
            /\ tpc' = [tpc EXCEPT ![t] = "failed"]
            /\ completed' = Append(completed, t)
    /\ UNCHANGED <<request_bucket, token_bucket, time_passed_request,
                   time_passed_token, tokens_needed,
                   batch_kind, returned, batch_result>>

gather_by_completion(children, results) ==
    [i \in 1..Len(children) |-> results[completed[i]]]

\* asyncio.gather(*tasks): the results of the children, in the order of the
\* children
gather(children, results) ==
    [i \in 1..Len(children) |-> results[children[i]]]

\* every task has returned: gather returns to the batch operation, which
\* returns the list, or the two lists taken from the pairs
GatherReturns ==
    /\ batch_result = Pending
    /\ \A t \in Tasks : tpc[t] = "done"
    /\ LET results == gather(TaskList, returned)
       IN  batch_result' =
              IF batch_kind = "response"
              THEN [texts |-> [i \in DOMAIN results |-> results[i].text]]
              ELSE [probabilities |-> [i \in DOMAIN results |-> results[i].pair[1]],
                    chain_of_thoughts |-> [i \in DOMAIN results |-> results[i].pair[2]]]
    /\ UNCHANGED <<request_bucket, token_bucket, time_passed_request,
                   time_passed_token, tpc, attempts, tokens_needed,
                   batch_kind, returned, completed>>

GatherRaisesKeepsResults ==
    /\ batch_result = Pending
    /\ \E t \in Tasks : tpc[t] = "failed"
    /\ batch_result' = [texts |-> gather(TaskList, returned)]
    /\ UNCHANGED <<request_bucket, token_bucket, time_passed_request,
                   time_passed_token, tpc, attempts, tokens_needed,
                   batch_kind, returned, completed>>

\* a task has raised: gather raises to the batch operation, whatever the
\* other tasks are doing
GatherRaises ==
    /\ batch_result = Pending
    /\ \E t \in Tasks : tpc[t] = "failed"
    /\ batch_result' = Raised
    /\ UNCHANGED <<request_bucket, token_bucket, time_passed_request,
                   time_passed_token, tpc, attempts, tokens_needed,
                   batch_kind, returned, completed>>

BudgetNext ==
    \/ Tick /\ UNCHANGED <<envVars, queueVars, samplingVars, populateVars, tokenVars>>
    \/ \E t \in Tasks : StartDispatch(t) /\ UNCHANGED <<envVars, queueVars, samplingVars, populateVars, tokenVars>>
    \/ \E t \in Tasks : AcquireRequests(t) /\ UNCHANGED <<envVars, queueVars, samplingVars, populateVars, tokenVars>>
    \/ \E t \in Tasks : AcquireTokens(t) /\ UNCHANGED <<envVars, queueVars, samplingVars, populateVars, tokenVars>>
    \/ \E t \in Tasks : CallSucceeds(t) /\ UNCHANGED <<envVars, queueVars, samplingVars, populateVars, tokenVars>>
    \/ \E t \in Tasks : CallFails(t) /\ UNCHANGED <<envVars, queueVars, samplingVars, populateVars, tokenVars>>
    \/ GatherReturns /\ UNCHANGED <<envVars, queueVars, samplingVars, populateVars, tokenVars>>
    \/ GatherRaises /\ UNCHANGED <<envVars, queueVars, samplingVars, populateVars, tokenVars>>

-----------------------------------------------------------------------------
(* OpenAIBackend: the next-token distribution *)

\* top_logprobs=5 of the request (line 321): a position has at most this many
\* candidates
TopLogprobsRequested == 5
\* range(5) of line 423: the candidates the loop reads
TopLogprobsRead == 5

\* OpenAIBackend.chain_of_thought_final_string, as a string of characters
chain_of_thought_final_string == <<"#", "#">>

\* str.lower, on the characters of the model
LowerChar(c) == CASE c = "X" -> "x" [] c = "Y" -> "y" [] OTHER -> c
lower(s) == [i \in 1..Len(s) |-> LowerChar(s[i])]

\* the candidates a position may have: a raw token and math.exp(logprob), in
\* tenths
CandidatePool ==
    { [token |-> <<"2">>, mass |-> 6], [token |-> <<"3">>, mass |-> 3],
      [token |-> <<"x">>, mass |-> 1], [token |-> <<" ", "2">>, mass |-> 2],
      [token |-> <<"X", " ">>, mass |-> 1] }

\* the candidate lists: different raw tokens, at most TopLogprobsRequested,
\* the most likely first as the service lists them
CandidateLists ==
    UNION { { c \in [1..n -> CandidatePool] :
                \A i, j \in 1..n : i < j => c[i] # c[j] /\ c[i].mass >= c[j].mass } :
            n \in 0..Min(TopLogprobsRequested, Cardinality(CandidatePool)) }

\* the generated tokens of a response
GeneratedTexts ==
    { <<>>,
      << <<"2">> >>,
      << <<"t">>, <<"#">>, <<"#">>, <<"2">> >>,
      << <<"t">>, <<"#", "#">> >>,
      << <<"t">>, <<"2">> >>,
      << <<"#", "#", "2">> >>,
      << <<"#", "#">>, <<"2">>, <<"#", "#">>, <<"3">> >> }

\* the candidates of the token at index p (from 0): those of the list, each
\* mass raised by p, so that the positions of a response differ
CandidatesAt(cands, p) ==
    [i \in 1..Len(cands) |-> [token |-> cands[i].token, mass |-> cands[i].mass + p]]

RECURSIVE Concat(_)
Concat(strs) == IF strs = <<>> THEN <<>> ELSE Head(strs) \o Concat(Tail(strs))

\* response.choices[0]: logprobs.content (token and top_logprobs of every
\* generated token) and message.content
Response(generated, cands) ==
    [logprobs |-> [p \in 1..Len(generated) |->
                     [token |-> generated[p],
                      top_logprobs |-> CandidatesAt(cands, p - 1)]],
     content |-> Concat(generated)]

ValidTokenLists ==
    { << <<"1">>, <<"2">>, <<"3">> >>, << <<"x">>, <<"2">> >>, << <<"1">> >> }

\* str.endswith and the test "sub in s"
endswith(s, suffix) ==
    Len(suffix) <= Len(s) /\ SubSeq(s, Len(s) - Len(suffix) + 1, Len(s)) = suffix
Contains(s, sub) ==
    \E i \in 0..(Len(s) - Len(sub)) : SubSeq(s, i + 1, i + Len(sub)) = sub

FinalAnswerIndexLast(resp) ==
    LET response_tokens == [p \in 1..Len(resp.logprobs) |-> resp.logprobs[p].token]
        hits == { index \in 0..(Len(response_tokens) - 1) :
                    endswith(Concat(SubSeq(response_tokens, 1, index + 1)),
                             chain_of_thought_final_string) }
    IN  IF hits = {} THEN -1
        ELSE (CHOOSE index \in hits : \A other \in hits : index >= other) + 1

\* lines 406-412: the index behind the first token at which the accumulated
\* prefix ends with the final string, or -1
FinalAnswerIndex(resp) ==
    LET response_tokens == [p \in 1..Len(resp.logprobs) |-> resp.logprobs[p].token]
        hits == { index \in 0..(Len(response_tokens) - 1) :
                    endswith(Concat(SubSeq(response_tokens, 1, index + 1)),
                             chain_of_thought_final_string) }
    IN  IF hits = {} THEN -1
        ELSE (CHOOSE index \in hits : \A other \in hits : index <= other) + 1

\* lines 422-424: tokens[token.lower().strip()] += math.exp(logprob), for
\* the first n candidates
RECURSIVE AccumulateTokens(_, _)
AccumulateTokens(top_logprobs, n) ==
    IF n = 0 THEN EmptyDict
    ELSE LET tokens == AccumulateTokens(top_logprobs, n - 1)
             key == strip(lower(top_logprobs[n].token))
         IN  [k \in DOMAIN tokens \cup {key} |->
                (IF k \in DOMAIN tokens THEN tokens[k] ELSE 0)
                  + (IF k = key THEN top_logprobs[n].mass ELSE 0)]

get_token_probs_or_raise(resp, use_cot) ==
    LET final_answer_index == IF use_cot THEN FinalAnswerIndex(resp) ELSE 0
    IN  IF \/ final_answer_index = -1
           \/ final_answer_index >= Len(resp.logprobs)
           \/ Len(resp.logprobs[final_answer_index + 1].top_logprobs) < TopLogprobsRead
        THEN Raises("IndexError")
        ELSE Returned([tokens |-> AccumulateTokens(resp.logprobs[final_answer_index + 1].top_logprobs,
                                                   TopLogprobsRead),
                       chain_of_thought |-> IF use_cot THEN resp.content ELSE <<>>])

\* get_token_probs_and_chain_of_thought(response, use_chain_of_thought)
get_token_probs_and_chain_of_thought(resp, use_cot) ==
    LET num_response_tokens == Len(resp.logprobs)
        chain_of_thought == IF use_cot THEN resp.content ELSE <<>>
        none == Returned([tokens |-> EmptyDict, chain_of_thought |-> chain_of_thought])
        final_answer_index == IF use_cot THEN FinalAnswerIndex(resp) ELSE 0
    IN  IF use_cot /\ ~Contains(chain_of_thought, chain_of_thought_final_string)
        THEN none
        ELSE IF final_answer_index = -1 THEN none
        ELSE IF final_answer_index >= num_response_tokens THEN none
        ELSE LET top_logprobs == resp.logprobs[final_answer_index + 1].top_logprobs
             IN  IF Len(top_logprobs) < TopLogprobsRead
                 THEN Raises("IndexError")
                 ELSE Returned([tokens |-> AccumulateTokens(top_logprobs, TopLogprobsRead),
                                chain_of_thought |-> chain_of_thought])

\* a probability: num / den
Prob(num, den) == [num |-> num, den |-> den]

\* sum(d.values())
SumValues(d) ==
    LET RECURSIVE SumOver(_)
        SumOver(S) == IF S = {} THEN 0
                      ELSE LET k == CHOOSE k \in S : TRUE
                           IN  d[k] + SumOver(S \ {k})
    IN  SumOver(DOMAIN d)

NormalizeNot(valid_probs) == [k \in DOMAIN valid_probs |-> Prob(valid_probs[k], 1)]

\* lines 325-329: divide by the sum over the valid tokens, unless it is 0
Normalize(valid_probs) ==
    LET total_prob == SumValues(valid_probs)
    IN  IF total_prob > 0
        THEN [k \in DOMAIN valid_probs |-> Prob(valid_probs[k], total_prob)]
        ELSE [k \in DOMAIN valid_probs |-> Prob(valid_probs[k], 1)]

\* lines 323-329 of _async_get_next_token_probs_normalized
NextTokenProbsNormalized(resp, valid, use_cot) ==
    LET r == get_token_probs_and_chain_of_thought(resp, use_cot)
    IN  IF r.status # "returned" THEN r
        ELSE LET token_probs == r.value.tokens
                 valid_probs == [k \in SeqToSet(valid) |->
                                   IF k \in DOMAIN token_probs THEN token_probs[k] ELSE 0]
             IN  Returned([probs |-> Normalize(valid_probs),
                           chain_of_thought |-> r.value.chain_of_thought])

\* a call whose request the service has answered
TokenInit ==
    /\ \E generated \in GeneratedTexts, cands \in CandidateLists :
         response = Response(generated, cands)
    /\ use_chain_of_thought \in BOOLEAN
    /\ valid_tokens \in ValidTokenLists
    /\ probs_result = NotCalled
    /\ probs_attempts = 1

\* one fixed call, for the specifications of the other components
TokenIdle ==
    /\ response = Response(<<>>, <<>>)
    /\ use_chain_of_thought = FALSE
    /\ valid_tokens = << <<"1">> >>
    /\ probs_result = NotCalled
    /\ probs_attempts = 1

\* the attempt goes on from the response (lines 323-329) and ends the call:
\* it returns, or it raises and was the last one the retry wrapper makes
ReadTokenProbs ==
    LET r == NextTokenProbsNormalized(response, valid_tokens, use_chain_of_thought)
    IN  /\ probs_result.status = "not_called"
        /\ r.status = "returned" \/ probs_attempts >= max_retries
        /\ probs_result' = r
        /\ UNCHANGED <<response, use_chain_of_thought, valid_tokens, probs_attempts>>

\* the attempt raises and the retry wrapper (lines 147-162, 279) starts the
\* coroutine again: a new request with the same arguments, a new response
RetryTokenProbs ==
    LET r == NextTokenProbsNormalized(response, valid_tokens, use_chain_of_thought)
    IN  /\ probs_result.status = "not_called"
        /\ r.status # "returned"
        /\ probs_attempts < max_retries
        /\ probs_attempts' = probs_attempts + 1
        /\ \E generated \in GeneratedTexts, cands \in CandidateLists :
             response' = Response(generated, cands)
        /\ UNCHANGED <<use_chain_of_thought, valid_tokens, probs_result>>

TokenNext ==
    \/ ReadTokenProbs
         /\ UNCHANGED <<envVars, queueVars, budgetVars, samplingVars, populateVars>>
    \/ RetryTokenProbs
         /\ UNCHANGED <<envVars, queueVars, budgetVars, samplingVars, populateVars>>

-----------------------------------------------------------------------------
(* Specifications *)

EnvNext ==
    \/ Advance /\ UNCHANGED <<queueVars, budgetVars, samplingVars, populateVars, tokenVars>>
    \/ AppendToHistory /\ UNCHANGED <<queueVars, budgetVars, samplingVars, populateVars, tokenVars>>

\* the three components after construction, max_turns = MaxAdvances
Init == EnvInit /\ QueueInit /\ BudgetInit /\ SamplingIdle /\ PopulateIdle /\ TokenIdle

\* one conversation: advances, and the caller's appends to the live history
EnvSpec == Init /\ [][EnvNext]_vars

TerminalNext == Advance /\ UNCHANGED <<queueVars, budgetVars, samplingVars, populateVars, tokenVars>>

\* one conversation under every max_turns: the advances alone
TerminalInit == EnvInitWith(MaxTurnsRange) /\ QueueInit /\ BudgetInit /\ SamplingIdle /\ PopulateIdle /\ TokenIdle

TerminalSpec == TerminalInit /\ [][TerminalNext]_vars

\* a rollout: the caller advances while is_terminal does not hold, and stops
\* at the first advance that raises
RolloutAdvance ==
    /\ ~is_terminal(current_state)
    /\ outcome # "error"
    /\ Advance

RolloutNext ==
    RolloutAdvance /\ UNCHANGED <<queueVars, budgetVars, samplingVars, populateVars, tokenVars>>

\* one rollout under every max_turns
RolloutSpec == TerminalInit /\ [][RolloutNext]_vars

\* the three components after construction, one fixed conversation
IdleInit == EnvIdle /\ QueueInit /\ BudgetInit /\ SamplingIdle /\ PopulateIdle /\ TokenIdle

\* producers and consumers of one queue
QueueSpec == IdleInit /\ [][QueueNext]_vars

\* every consumer inside get keeps being scheduled
QueueFairSpec ==
    /\ QueueSpec
    /\ \A c \in Consumers : WF_vars(GetDequeue(c) /\ UNCHANGED <<envVars, budgetVars, samplingVars, populateVars, tokenVars>>)
    /\ WF_vars(\E k \in SubenvKeys : Put(k) /\ UNCHANGED <<envVars, budgetVars, samplingVars, populateVars, tokenVars>>)

\* the tasks of one client
BudgetSpec == IdleInit /\ [][BudgetNext]_vars

\* the dispatches alone while the clock stands still: no refill adds anything
FrozenClockNext ==
    \/ \E t \in Tasks : StartDispatch(t) /\ UNCHANGED <<envVars, queueVars, samplingVars, populateVars, tokenVars>>
    \/ \E t \in Tasks : AcquireRequests(t) /\ UNCHANGED <<envVars, queueVars, samplingVars, populateVars, tokenVars>>
    \/ \E t \in Tasks : AcquireTokens(t) /\ UNCHANGED <<envVars, queueVars, samplingVars, populateVars, tokenVars>>
    \/ \E t \in Tasks : CallSucceeds(t) /\ UNCHANGED <<envVars, queueVars, samplingVars, populateVars, tokenVars>>
    \/ \E t \in Tasks : CallFails(t) /\ UNCHANGED <<envVars, queueVars, samplingVars, populateVars, tokenVars>>

FrozenClockSpec == IdleInit /\ [][FrozenClockNext]_vars

\* the three components after construction, the tasks gathered by either
\* batch operation
BatchInit == EnvIdle /\ QueueInit /\ BudgetInitWith(BatchKinds) /\ SamplingIdle /\ PopulateIdle /\ TokenIdle

\* the tasks of one batch call of either kind
BatchSpec == BatchInit /\ [][BudgetNext]_vars

SamplingSpecInit ==
    EnvIdle /\ QueueInit /\ BudgetInit /\ SamplingInit /\ PopulateIdle /\ TokenIdle

PopulateSpecInit ==
    EnvIdle /\ QueueInit /\ BudgetInit /\ SamplingIdle /\ PopulateInit /\ TokenIdle

TokenSpecInit ==
    EnvIdle /\ QueueInit /\ BudgetInit /\ SamplingIdle /\ PopulateIdle /\ TokenInit

\* what one attempt of the next-token distribution makes of a response
TokenSpec == TokenSpecInit /\ [][TokenNext]_vars

\* the populate calls of consecutive iterations, training or evaluating
PopulateSpec == PopulateSpecInit /\ [][PopulateNext]_vars

\* the construction-time methods of a queue, each called once
SamplingSpec == SamplingSpecInit /\ [][SamplingNext]_vars

\* the event loop runs every ready task and its clock advances
BudgetFairSpec ==
    /\ BudgetSpec
    /\ WF_vars(Tick /\ UNCHANGED <<envVars, queueVars, samplingVars, populateVars, tokenVars>>)
    /\ \A t \in Tasks : WF_vars(AcquireRequests(t) /\ UNCHANGED <<envVars, queueVars, samplingVars, populateVars, tokenVars>>)
    /\ \A t \in Tasks : WF_vars(AcquireTokens(t) /\ UNCHANGED <<envVars, queueVars, samplingVars, populateVars, tokenVars>>)

-----------------------------------------------------------------------------
(* Properties of TrajectoryQueue *)

\* how many times job j sits in some queue
QueuedCopies(j) ==
    Cardinality({ki \in UNION {{<<k, i>> : i \in 1..Len(queue_by_subenv[k])} :
                                 k \in DOMAIN queue_by_subenv} :
                    queue_by_subenv[ki[1]][ki[2]] = j})

NumEnqueued == Cardinality({j \in Jobs : enqueued[j] # NoKey})
NumDequeued == Cardinality({j \in Jobs : dequeued[j] > 0})

\* C1: under every interleaving of puts and of the gets of concurrent
\* consumers, a job that was put is either still queued once or was returned
\* by exactly one get, never both and never twice; a job that was not put is
\* nowhere; a returned job comes with the key it was put under; and once the
\* queues are drained as many jobs were returned as were put.
C1_NoLossNoDuplicate ==
    /\ \A j \in Jobs :
         /\ dequeued[j] <= 1
         /\ dequeued[j] + QueuedCopies(j) = (IF enqueued[j] = NoKey THEN 0 ELSE 1)
    /\ \A c \in Consumers :
         cresult[c].subenv \in Jobs =>
            /\ dequeued[cresult[c].subenv] = 1
            /\ enqueued[cresult[c].subenv] = cresult[c].subenv_key
    /\ num_trajectories = 0 => NumDequeued = NumEnqueued

\* every job was put, the queues are drained, and every consumer got a job
C1_Witness ==
    /\ NumEnqueued = MaxJobs
    /\ num_trajectories = 0
    /\ NumDequeued = MaxJobs
    /\ \A c \in Consumers : cresult[c].subenv \in Jobs

\* C2: a get that chose a key another consumer emptied before its dequeue
\* retries and returns; every get that has chosen a key eventually returns.
C2_EveryGetReturns ==
    \A c \in Consumers : (cpc[c] = "dequeue") ~> (cpc[c] = "idle")

\* some key has a non-empty backlog
HasBacklog == \E k \in DOMAIN queue_by_subenv : queue_by_subenv[k] # <<>>

\* C11: a get returns the sentinel (None, None) only in a step whose check
\* finds no key with a backlog, and goes on to dequeue only when some key has
\* one, from a key that has one; once it has chosen a key that has a
\* backlog, and while every other consumer is outside get, the backlog
\* stays until the get returns, and it returns a job.
C11_SentinelIffNoBacklog ==
    [][\A c \in Consumers :
          /\ (cresult'[c] = Exhausted /\ cresult[c] # Exhausted) => ~HasBacklog
          /\ (cpc[c] = "idle" /\ cpc'[c] = "dequeue") =>
                /\ HasBacklog
                /\ csel'[c] \in DOMAIN queue_by_subenv
                /\ queue_by_subenv[csel'[c]] # <<>>
          /\ (/\ cpc[c] = "dequeue"
              /\ queue_by_subenv[csel[c]] # <<>>
              /\ \A d \in Consumers \ {c} : cpc[d] = "idle" /\ cpc'[d] = "idle") =>
                \/ cpc'[c] = "idle" /\ cresult'[c].subenv \in Jobs
                \/ cpc'[c] = "dequeue" /\ queue_by_subenv'[csel'[c]] # <<>>
      ]_vars

\* one consumer got a job and is back outside get, another got the sentinel
C11_Witness ==
    \E c, d \in Consumers :
        /\ c # d
        /\ cpc[c] = "idle" /\ cresult[c] = Exhausted
        /\ cpc[d] = "idle" /\ cresult[d].subenv \in Jobs

\* key k has a backlog and no key has a longer one
IsMaxBacklog(k) ==
    /\ k \in DOMAIN queue_by_subenv
    /\ queue_by_subenv[k] # <<>>
    /\ \A k2 \in DOMAIN queue_by_subenv :
          qsize(queue_by_subenv[k2]) <= qsize(queue_by_subenv[k])

\* C12: a get(preferred_key) that goes on to dequeue has chosen preferred_key
\* when that key has a backlog, and otherwise (None, a key never put under,
\* an emptied key) a key whose backlog is maximal; the dequeue takes the
\* oldest job of the chosen key and returns it with that key, which is the
\* key the job was put under.
C12_PreferredKeyElseLargest ==
    /\ [][\A c \in Consumers :
            /\ (cpc[c] = "idle" /\ cpc'[c] = "dequeue") =>
                  \A preferred_key \in SubenvKeys \cup {NoKey} :
                     GetSelect(c, preferred_key) =>
                        IF /\ preferred_key \in DOMAIN queue_by_subenv
                           /\ queue_by_subenv[preferred_key] # <<>>
                        THEN csel'[c] = preferred_key
                        ELSE IsMaxBacklog(csel'[c])
            /\ (cpc[c] = "dequeue" /\ cpc'[c] = "idle") =>
                  /\ cresult'[c].subenv = Head(queue_by_subenv[csel[c]])
                  /\ cresult'[c].subenv_key = csel[c]
                  /\ queue_by_subenv'[csel[c]] = Tail(queue_by_subenv[csel[c]])
        ]_vars
    /\ [](\A c \in Consumers :
            cresult[c].subenv \in Jobs =>
               cresult[c].subenv_key = enqueued[cresult[c].subenv])

\* a consumer got a job from a key while another key still holds a longer
\* backlog than the chosen key ever had: the key was its preferred key
C12_Witness ==
    \E c \in Consumers, k \in DOMAIN queue_by_subenv :
        /\ cpc[c] = "idle"
        /\ cresult[c].subenv \in Jobs
        /\ cresult[c].subenv_key # k
        /\ qsize(queue_by_subenv[k]) >
              Cardinality({j \in Jobs : enqueued[j] = cresult[c].subenv_key})

-----------------------------------------------------------------------------
(* Properties of the rate budgets *)

\* C3: neither bucket is ever negative or above its per-minute capacity; a
\* task passes an acquire only in a step in which the refilled bucket holds at
\* least its amount, and the step deducts exactly that amount; no other step
\* lowers a bucket.
C3_BudgetsWithinCapacity ==
    /\ [](/\ 0 <= request_bucket /\ request_bucket <= max_requests_per_minute
          /\ 0 <= token_bucket /\ token_bucket <= max_tokens_per_minute)
    /\ [][/\ \A t \in Tasks :
               (tpc[t] = "acquire_requests" /\ tpc'[t] = "acquire_tokens") =>
                  LET remaining == Refill(request_bucket, max_requests_per_minute,
                                          time_passed_request)
                  IN  remaining >= 1 /\ request_bucket' = remaining - 1
          /\ \A t \in Tasks :
               (tpc[t] = "acquire_tokens" /\ tpc'[t] = "call") =>
                  LET remaining == Refill(token_bucket, max_tokens_per_minute,
                                          time_passed_token)
                  IN  /\ remaining >= tokens_needed[t]
                      /\ token_bucket' = remaining - tokens_needed[t]
          /\ request_bucket' < request_bucket =>
               \E t \in Tasks : tpc[t] = "acquire_requests" /\ tpc'[t] = "acquire_tokens"
          /\ token_bucket' < token_bucket =>
               \E t \in Tasks : tpc[t] = "acquire_tokens" /\ tpc'[t] = "call"]_vars

\* one task has taken its tokens and emptied the bucket while another waits
\* in _acquire_tokens for more than is left
C3_Witness ==
    \E t1, t2 \in Tasks :
        /\ tpc[t1] = "call"
        /\ tpc[t2] = "acquire_tokens"
        /\ token_bucket = 0
        /\ request_bucket = 0
        /\ tokens_needed[t2] <= max_tokens_per_minute

\* a step of task t, whatever its position
TaskStep(t) ==
    /\ StartDispatch(t) \/ AcquireRequests(t) \/ AcquireTokens(t)
          \/ CallSucceeds(t) \/ CallFails(t)
    /\ UNCHANGED <<envVars, queueVars, samplingVars, populateVars, tokenVars>>

\* C4: with the event loop running every ready task and the clock advancing,
\* every _acquire_requests(1) returns and every _acquire_tokens of an amount
\* up to the capacity returns; and a task that is not finished can always
\* take its next step, whoever else is waiting in an acquire.
C4_AcquireEventuallyReturns ==
    /\ \A t \in Tasks : (tpc[t] = "acquire_requests") ~> (tpc[t] = "acquire_tokens")
    /\ \A t \in Tasks :
         (tpc[t] = "acquire_tokens" /\ tokens_needed[t] <= max_tokens_per_minute)
            ~> (tpc[t] = "call")
    /\ [](\A t \in Tasks : tpc[t] \notin {"done", "failed"} => ENABLED TaskStep(t))

\* two tasks in their first attempt hold more tokens together than the
\* bucket's capacity: one of them waited for a refill and then returned
C4_Witness ==
    \E t1, t2 \in Tasks :
        /\ t1 # t2
        /\ tpc[t1] = "call" /\ tpc[t2] = "call"
        /\ attempts[t1] = 1 /\ attempts[t2] = 1
        /\ tokens_needed[t1] + tokens_needed[t2] > max_tokens_per_minute

-----------------------------------------------------------------------------
(* Properties of Environment *)

\* the scripted messages of a state as create_state appends them
FormattedScript(name, picks) ==
    [i \in 1..Len(state_config[name].history) |->
        Msg(state_config[name].history[i].role,
            strip(format_map(state_config[name].history[i].content,
                             MessageFormatVars(format_vars, picks[i]))))]

IsPrefix(p, h) == Len(p) <= Len(h) /\ SubSeq(h, 1, Len(p)) = p

\* C5: whatever the label, a state returned by advance has the turns of the
\* state passed in plus 1; the initial state has turns 0.
C5_TurnsIncreaseByOne ==
    /\ outcome = "constructed" => current_state.turns = 0
    /\ outcome \in {"new_state", "self_loop"} =>
          current_state.turns = prev_state.turns + 1
    /\ \A transition \in TransitionLabels, picks \in PickSeqs :
          LET r == post_transition_processing(current_state, transition, heap,
                                              visited_states, picks)
          IN  r.ok => r.state.turns = current_state.turns + 1

\* two advances were made, the second with a label that is not configured
C5_Witness ==
    /\ outcome \in {"new_state", "self_loop"}
    /\ current_state.turns = 2
    /\ last_transition = "other"

\* C6: after an advance to another state, the new state's history is a list
\* of its own: it begins with the messages the predecessor's history held,
\* followed by the target's scripted messages; the predecessor's history
\* still holds what it held, also after the caller appended to the new one.
C6_NewStateHistoryIndependent ==
    outcome = "new_state" =>
        /\ current_state.history # prev_state.history
        /\ heap[prev_state.history] = prev_history
        /\ \E picks \in PickSeqs :
              IsPrefix(prev_history \o FormattedScript(current_state.name, picks),
                       heap[current_state.history])

\* the caller appended to the history of a state that advance created
C6_Witness ==
    /\ outcome = "new_state"
    /\ current_state.name = "s1"
    /\ CallerAppended(prev_history) = 0
    /\ CallerAppended(heap[current_state.history]) = 1

\* C7: an advance whose resolved transition leads to the state's own name
\* returns a state of that name whose history holds what the input's holds;
\* no scripted message is appended, create_state is not called
\* (visited_states is as before) and the input state is as it was.
C7_SelfLoopKeepsHistory ==
    \A transition \in TransitionLabels, picks \in PickSeqs :
        LET t == IF transition \in DOMAIN current_state.valid_transitions
                 THEN transition ELSE current_state.default_transition
            r == post_transition_processing(current_state, transition, heap,
                                            visited_states, picks)
        IN  (/\ t \in DOMAIN current_state.valid_transitions
             /\ current_state.valid_transitions[t].next_state = current_state.name)
            => /\ r.ok
               /\ r.state.name = current_state.name
               /\ r.heap[r.state.history] = heap[current_state.history]
               /\ r.heap[current_state.history] = heap[current_state.history]
               /\ r.visited = visited_states
               /\ r.input = current_state

\* a self-loop was taken in a state that has scripted messages
C7_Witness ==
    /\ outcome = "self_loop"
    /\ current_state.name = "s1"
    /\ prev_state.name = "s1"
    /\ heap[current_state.history] = prev_history

\* C8: is_terminal(state) is true exactly when state.turns >= max_turns or
\* the definition of the state's name has the terminal flag set.
C8_IsTerminalIff ==
    is_terminal(current_state) <=>
        (current_state.turns >= max_turns \/ state_config[current_state.name].terminal)

\* a state reached by an advance is terminal by its flag, not by its turns
C8_Witness ==
    /\ outcome = "new_state"
    /\ current_state.turns < max_turns
    /\ is_terminal(current_state)

\* C9 as stated: a fresh initial state is terminal only if max_turns = 0.
C9_FreshNotTerminalUnlessZero ==
    (outcome = "constructed" /\ is_terminal(current_state)) => max_turns = 0

\* C9, amended: a fresh initial state is terminal only if max_turns <= 0 or
\* the definition of initial_state has the terminal flag set.
C9_FreshNotTerminalUnlessNoTurnsOrFlag ==
    (outcome = "constructed" /\ is_terminal(current_state)) =>
        (max_turns <= 0 \/ state_config["initial_state"].terminal)

\* a fresh initial state that is terminal although max_turns > 0
C9_Witness ==
    /\ outcome = "constructed"
    /\ max_turns > 0
    /\ is_terminal(current_state)

\* C10: advance with a label that is not a key of valid_transitions does
\* what advance with the default label does; the returned state's name is
\* the next_state of the default label then, and of the label itself when
\* the label is a key.
C10_UnknownLabelUsesDefault ==
    \A transition \in TransitionLabels, picks \in PickSeqs :
        LET vt == current_state.valid_transitions
            d == current_state.default_transition
            r == post_transition_processing(current_state, transition, heap,
                                            visited_states, picks)
        IN  /\ transition \notin DOMAIN vt =>
                /\ r = post_transition_processing(current_state, d, heap,
                                                  visited_states, picks)
                /\ r.ok => r.state.name = vt[d].next_state
                /\ (d \in DOMAIN vt /\ vt[d].next_state \in StateNames) => r.ok
            /\ transition \in DOMAIN vt =>
                /\ r.ok => r.state.name = vt[transition].next_state
                /\ vt[transition].next_state \in StateNames => r.ok

\* an advance with an unconfigured label led to the default's next state,
\* which is not where the configured label leads
C10_Witness ==
    /\ outcome = "new_state"
    /\ last_transition = "other"
    /\ current_state.name = prev_state.valid_transitions["no"].next_state
    /\ "yes" \in DOMAIN prev_state.valid_transitions
    /\ prev_state.valid_transitions["yes"].next_state # current_state.name

-----------------------------------------------------------------------------
(* Properties of the retried dispatch and of the batch operations *)

\* C13: an attempt that fails (the call raises, returns no content or a
\* malformed response) is followed by a new attempt that starts again at the
\* request acquire, as long as fewer than max_retries = 5 attempts were made;
\* no task makes more than max_retries attempts; the first attempt whose call
\* succeeds ends the task, which returns that call's text and makes no
\* further attempt; the task raises only when its max_retries-th attempt
\* fails.
C13_RetriesUpToCeiling ==
    /\ [](\A t \in Tasks : attempts[t] <= max_retries /\ max_retries = 5)
    /\ [][\A t \in Tasks :
            /\ tpc[t] = "call" =>
                  \/ tpc'[t] = "call" /\ attempts'[t] = attempts[t]
                  \/ /\ tpc'[t] = "done"
                     /\ attempts'[t] = attempts[t]
                     /\ \E content \in Contents :
                           returned'[t] = TaskResult(batch_kind, content)
                  \/ /\ tpc'[t] = "acquire_requests"
                     /\ attempts[t] < max_retries
                     /\ attempts'[t] = attempts[t] + 1
                     /\ returned'[t] = NoValue
                  \/ /\ tpc'[t] = "failed"
                     /\ attempts[t] = max_retries
                     /\ attempts'[t] = attempts[t]
                     /\ returned'[t] = NoValue
            /\ tpc[t] # "call" => tpc'[t] \notin {"done", "failed"} \ {tpc[t]}
            /\ tpc[t] \in {"done", "failed"} =>
                  /\ tpc'[t] = tpc[t]
                  /\ attempts'[t] = attempts[t]
                  /\ returned'[t] = returned[t]
            /\ tpc[t] \in {"acquire_requests", "acquire_tokens"} =>
                  attempts'[t] = attempts[t]
        ]_vars

\* one task succeeded at its last permitted attempt, another raised
C13_Witness ==
    \E t1, t2 \in Tasks :
        /\ tpc[t1] = "done" /\ attempts[t1] = max_retries /\ returned[t1] # NoValue
        /\ tpc[t2] = "failed" /\ attempts[t2] = max_retries

\* C14: whatever the order in which the tasks of a batch complete, the i-th
\* result the batch operation returns is what the task of the i-th input
\* returned; for the distribution batch the i-th distribution and the i-th
\* free-form text are those of the i-th input.
C14_BatchResultsInInputOrder ==
    (batch_result # Pending /\ batch_result # Raised) =>
        \A i \in 1..Len(TaskList) :
            /\ tpc[TaskList[i]] = "done"
            /\ IF batch_kind = "response"
               THEN /\ Len(batch_result.texts) = Len(TaskList)
                    /\ batch_result.texts[i] = returned[TaskList[i]].text
               ELSE /\ Len(batch_result.probabilities) = Len(TaskList)
                    /\ Len(batch_result.chain_of_thoughts) = Len(TaskList)
                    /\ batch_result.probabilities[i] = returned[TaskList[i]].pair[1]
                    /\ batch_result.chain_of_thoughts[i] = returned[TaskList[i]].pair[2]

\* a batch returned although the task of the last input completed first and
\* the tasks returned different values
C14_Witness ==
    /\ batch_result # Pending /\ batch_result # Raised
    /\ batch_kind = "token_probs"
    /\ completed[1] = TaskList[Len(TaskList)]
    /\ returned[TaskList[1]] # returned[TaskList[Len(TaskList)]]

\* the same for a batch of dispatches
C14_WitnessResponse ==
    /\ batch_result # Pending /\ batch_result # Raised
    /\ batch_kind = "response"
    /\ completed[1] = TaskList[Len(TaskList)]
    /\ returned[TaskList[1]] # returned[TaskList[Len(TaskList)]]

-----------------------------------------------------------------------------
(* Properties of the sampling budget *)

\* the fractions of the table sum to 1.0
FractionsSumToOne ==
    SumSeq([i \in 1..Len(env_fractions) |-> env_fractions[i].fraction]) = FractionDen

\* n * n_subenvs_to_sample_per_env for the n names of the call
TotalSlots == Len(env_names) * n_subenvs_to_sample_per_env

\* the sum of the allocations a call returned
AllocationSum(result) ==
    SumSeq([i \in 1..Len(env_names) |-> result.value[env_names[i]]])

\* C15 as stated: for every fraction table summing to 1.0 and every list of
\* training environments, the partition procedure returns allocations whose
\* sum is n * n_subenvs_to_sample_per_env.
C15_PartitionReturnsExactSum ==
    (partition_result # NotCalled /\ FractionsSumToOne) =>
        /\ partition_result.status = "returned"
        /\ AllocationSum(partition_result) = TotalSlots

\* C15: for every fraction table summing to 1.0 and every list of training
\* environments, the partition procedure either returns allocations whose
\* sum is n * n_subenvs_to_sample_per_env exactly, or raises (an assertion
\* error, or a key error for a name whose part before "_" is no prefix of
\* the table) and returns nothing.
C15_PartitionExactSumOrRaises ==
    (partition_result # NotCalled /\ FractionsSumToOne) =>
        \/ /\ partition_result.status = "returned"
           /\ DOMAIN partition_result.value = SeqToSet(env_names)
           /\ AllocationSum(partition_result) = TotalSlots
        \/ /\ partition_result.status \in {"AssertionError", "KeyError"}
           /\ partition_result.value = EmptyDict

\* the procedure returned different positive allocations for two
\* environments under two prefixes
C15_Witness ==
    /\ FractionsSumToOne
    /\ partition_result.status = "returned"
    /\ Len(env_fractions) = 2
    /\ \A i \in 1..Len(env_fractions) : env_fractions[i].fraction > 0
    /\ Len(env_names) = 2
    /\ \A i \in 1..Len(env_names) : partition_result.value[env_names[i]] > 0
    /\ partition_result.value[env_names[1]] # partition_result.value[env_names[2]]

\* some name of the call matches no rule
MatchesRule(name, rule) == startswith(name, rule.prefix) \/ rule.prefix = <<"*">>
FirstMatchingRule(name) ==
    env_fractions[CHOOSE i \in 1..Len(env_fractions) :
                     /\ MatchesRule(name, env_fractions[i])
                     /\ \A j \in 1..(i - 1) : ~MatchesRule(name, env_fractions[j])]
SomeNameUnmatched ==
    \E i \in 1..Len(env_names) :
        \A j \in 1..Len(env_fractions) : ~MatchesRule(env_names[i], env_fractions[j])

\* C16: the lookup raises a configuration error exactly when some name
\* matches no rule; otherwise it returns, for every name, the fraction of
\* the first rule of the table whose prefix the name starts with or whose
\* prefix is the wildcard.
C16_LookupFirstMatchingRule ==
    fraction_result # NotCalled =>
        /\ fraction_result.status = "ValueError" <=> SomeNameUnmatched
        /\ ~SomeNameUnmatched =>
              /\ fraction_result.status = "returned"
              /\ DOMAIN fraction_result.value = SeqToSet(env_names)
              /\ \A n \in SeqToSet(env_names) :
                    fraction_result.value[n] = FirstMatchingRule(n).fraction

-----------------------------------------------------------------------------
(* Properties of populate *)

\* the n ids at the list positions cursor, cursor + 1, ... taken modulo the
\* length of the list, for the cursor of iteration step
WindowFromCursor(step, n) ==
    LET total == Len(history_ids)
        cursor == (step * allocation) % total
    IN  [j \in 1..n |-> history_ids[((cursor + j - 1) % total) + 1]]

\* C17: under the sequential scheme every populate, training or evaluating,
\* that asks for n sub-environments of a list of total, 0 <= n <= total,
\* chooses exactly the n ids at the positions (i * a mod total),
\* (i * a mod total) + 1, ... modulo total, in that order, where i is its
\* iteration index and a the training allocation.
C17_SequentialWindowFromCursor ==
    (subenv_choice_scheme = "sequential" /\ Len(history_ids) >= 1) =>
        \A c \in 1..Len(windows) :
            windows[c].n <= Len(history_ids) =>
                /\ windows[c].status = "returned"
                /\ windows[c].subenv_ids =
                      WindowFromCursor(windows[c].iter_step, windows[c].n)

\* how often the windows chosen so far contain the id
TimesChosen(id) ==
    Cardinality({ p \in (1..Len(windows)) \X (0..Len(history_ids)) :
                    /\ p[2] \in 1..Len(windows[p[1]].subenv_ids)
                    /\ windows[p[1]].subenv_ids[p[2]] = id })

\* C18: under the sequential scheme with window size w, the windows of the
\* training iterations 0..k together contain every sub-environment at least
\* floor(k * w / total) times, and every window that crosses the end of the
\* list is the tail slice from its cursor followed by the head slice up to
\* the wrapped end index.
C18_SequentialCoverage ==
    (/\ subenv_choice_scheme = "sequential"
     /\ Len(history_ids) >= 1
     /\ windows # <<>>
     /\ \A c \in 1..Len(windows) : ~windows[c].eval) =>
        LET total == Len(history_ids)
            w == allocation
            k == Len(windows) - 1
        IN  /\ \A id \in SeqToSet(history_ids) : TimesChosen(id) >= (k * w) \div total
            /\ \A c \in 1..Len(windows) :
                  LET cursor == (windows[c].iter_step * w) % total
                  IN  cursor + w > total =>
                         windows[c].subenv_ids =
                            Slice(history_ids, cursor, total)
                               \o Slice(history_ids, 0, (cursor + w) % total)

\* the same for the window sizes up to the length of the list
SequentialCoverageUpToTotal ==
    allocation <= Len(history_ids) => C18_SequentialCoverage

\* the same as C17 for the populates that ask for at least one
SequentialWindowNonEmpty ==
    (subenv_choice_scheme = "sequential" /\ Len(history_ids) >= 1) =>
        \A c \in 1..Len(windows) :
            (1 <= windows[c].n /\ windows[c].n <= Len(history_ids)) =>
                /\ windows[c].status = "returned"
                /\ windows[c].subenv_ids =
                      WindowFromCursor(windows[c].iter_step, windows[c].n)

-----------------------------------------------------------------------------
(* Properties of the next-token distribution *)

\* the index of the answer position, or -1
AnswerIndex ==
    IF ~use_chain_of_thought THEN 0
    ELSE IF Contains(response.content, chain_of_thought_final_string)
         THEN FinalAnswerIndex(response)
         ELSE -1

\* the candidates the service returned at the answer position
AnswerCandidates ==
    IF AnswerIndex >= 0 /\ AnswerIndex < Len(response.logprobs)
    THEN response.logprobs[AnswerIndex + 1].top_logprobs
    ELSE <<>>

\* the mass of the candidates that normalize to token k
CandidateMass(k) ==
    SumSeq([i \in 1..Len(AnswerCandidates) |->
              IF strip(lower(AnswerCandidates[i].token)) = k
              THEN AnswerCandidates[i].mass ELSE 0])

\* the mass of the candidates that normalize to some valid token
ValidMass == SumSeq([i \in 1..Len(valid_tokens) |-> CandidateMass(valid_tokens[i])])

\* probs is, token by token, the candidate mass over the mass of all valid
\* tokens
IsRenormalizedMass(probs) ==
    /\ DOMAIN probs = SeqToSet(valid_tokens)
    /\ \A k \in SeqToSet(valid_tokens) :
          /\ probs[k].den > 0
          /\ IF ValidMass = 0 THEN probs[k].num = 0
             ELSE probs[k].num * ValidMass = CandidateMass(k) * probs[k].den

\* C19: without reasoning, for a response whose first token has at most 5
\* candidates, the call returns for each valid token the mass of the
\* candidates that normalize to it over the mass of all valid tokens, and 0
\* for a valid token with no candidate.
C19_DistributionOfUpToFiveCandidates ==
    (/\ probs_result.status # "not_called"
     /\ ~use_chain_of_thought
     /\ Len(response.logprobs) >= 1) =>
        /\ probs_result.status = "returned"
        /\ IsRenormalizedMass(probs_result.value.probs)

\* the same for the responses whose answer position has all of the
\* candidates the loop reads
DistributionOfFiveCandidates ==
    (/\ probs_result.status # "not_called"
     /\ Len(AnswerCandidates) >= TopLogprobsRead) =>
        /\ probs_result.status = "returned"
        /\ IsRenormalizedMass(probs_result.value.probs)

\* C20: a distribution the call returns has exactly the valid tokens as
\* keys; its values sum to 1 when some candidate at the answer position
\* normalizes to a valid token with positive mass, and are all 0 otherwise;
\* no value has a zero divisor.
C20_DistributionOverValidTokens ==
    probs_result.status = "returned" =>
        LET probs == probs_result.value.probs
        IN  /\ DOMAIN probs = SeqToSet(valid_tokens)
            /\ \A k \in DOMAIN probs : probs[k].den > 0 /\ probs[k].num >= 0
            /\ \A k1, k2 \in DOMAIN probs : probs[k1].den = probs[k2].den
            /\ IF \E i \in 1..Len(AnswerCandidates) :
                     /\ strip(lower(AnswerCandidates[i].token)) \in SeqToSet(valid_tokens)
                     /\ AnswerCandidates[i].mass > 0
               THEN \A k \in DOMAIN probs : SumValues([t \in DOMAIN probs |-> probs[t].num]) = probs[k].den
               ELSE \A k \in DOMAIN probs : probs[k].num = 0

\* a distribution was returned after reasoning, two candidates of the answer
\* position normalize to one valid token, and another valid token has none
C20_Witness ==
    /\ probs_result.status = "returned"
    /\ use_chain_of_thought
    /\ AnswerIndex > 0
    /\ \E i, j \in 1..Len(AnswerCandidates) :
          /\ i # j
          /\ strip(lower(AnswerCandidates[i].token)) = strip(lower(AnswerCandidates[j].token))
          /\ strip(lower(AnswerCandidates[i].token)) \in SeqToSet(valid_tokens)
    /\ \E k \in SeqToSet(valid_tokens) : probs_result.value.probs[k].num = 0
    /\ \E k \in SeqToSet(valid_tokens) : probs_result.value.probs[k].num > 0

\* a distribution of zeros was returned for candidates none of which is valid
DistributionAllZero ==
    /\ probs_result.status = "returned"
    /\ Len(AnswerCandidates) >= TopLogprobsRead
    /\ \A k \in SeqToSet(valid_tokens) : probs_result.value.probs[k].num = 0

\* the reasoning of the response has no marker, or its answer position is
\* behind the last generated token
NoAnswerPosition ==
    /\ use_chain_of_thought
    /\ \/ ~Contains(response.content, chain_of_thought_final_string)
       \/ AnswerIndex >= Len(response.logprobs)

\* C21: with reasoning, an attempt whose response has no marker, or whose
\* answer position is outside the generated tokens, ends the call: it
\* returns zero for every valid token together with the generated text, it
\* does not raise and the retry wrapper starts no further attempt.
C21_NoAnswerPositionReturnsZeros ==
    [][(NoAnswerPosition /\ probs_result.status = "not_called") =>
          /\ probs_result'.status = "returned"
          /\ probs_attempts' = probs_attempts
          /\ DOMAIN probs_result'.value.probs = SeqToSet(valid_tokens)
          /\ \A k \in SeqToSet(valid_tokens) : probs_result'.value.probs[k].num = 0
          /\ probs_result'.value.chain_of_thought = response.content]_vars

\* the first attempt returned zeros for a response that has the marker as
\* its last token
C21_Witness ==
    /\ NoAnswerPosition
    /\ Contains(response.content, chain_of_thought_final_string)
    /\ response.content # chain_of_thought_final_string
    /\ probs_attempts = 1
    /\ probs_result.status = "returned"
    /\ \A k \in SeqToSet(valid_tokens) : probs_result.value.probs[k].num = 0

\* the first attempt returned zeros for a response without the marker
C21_WitnessNoMarker ==
    /\ NoAnswerPosition
    /\ ~Contains(response.content, chain_of_thought_final_string)
    /\ response.content # <<>>
    /\ probs_attempts = 1
    /\ probs_result.status = "returned"

-----------------------------------------------------------------------------
(* Properties of Environment: configuration errors, scripted messages *)

\* the resolved label is no key of valid_transitions, or its next_state has
\* no state definition
BadTransition(state, transition) ==
    LET t == IF transition \in DOMAIN state.valid_transitions
             THEN transition ELSE state.default_transition
    IN  \/ t \notin DOMAIN state.valid_transitions
        \/ state.valid_transitions[t].next_state \notin DOMAIN state_config

\* C22: an advance whose resolved transition (the label, or the default
\* label when the label is not configured) names a next state without a
\* definition, or whose default label is no key of valid_transitions, raises:
\* it returns no state, and the caller's current state is the one it had.
C22_UndefinedTargetFails ==
    /\ \A transition \in TransitionLabels, picks \in PickSeqs :
          LET r == post_transition_processing(current_state, transition, heap,
                                              visited_states, picks)
          IN  BadTransition(current_state, transition) =>
                 /\ ~r.ok
                 /\ r.state = NoState
                 /\ r.visited = visited_states
    /\ outcome = "error" =>
          /\ BadTransition(prev_state, last_transition)
          /\ current_state = prev_state
    /\ outcome \in {"new_state", "self_loop"} =>
          ~BadTransition(prev_state, last_transition)

\* an advance with an unconfigured label failed because the default label
\* leads to a state that has no definition
C22_Witness ==
    /\ outcome = "error"
    /\ last_transition = "other"
    /\ prev_state.default_transition \in DOMAIN prev_state.valid_transitions
    /\ prev_state.valid_transitions[prev_state.default_transition].next_state
          = "undefined_state"
    /\ prev_state.name = "s1"

\* an advance failed because the default label is no key
C22_WitnessNoDefault ==
    /\ outcome = "error"
    /\ prev_state.default_transition \notin DOMAIN prev_state.valid_transitions

-----------------------------------------------------------------------------
(* Properties of TrajectoryQueue: order within a key *)

\* job a was put under the key of job b, and before it (the jobs are put in
\* the order of their numbers)
PutBeforeUnderSameKey(a, b) ==
    a < b /\ enqueued[a] # NoKey /\ enqueued[a] = enqueued[b]

\* C23: the jobs of one key are dequeued in the order they were put: a get
\* returns job b only when every job put under b's key before b was returned
\* by an earlier get, whatever was put or dequeued under other keys meanwhile.
C23_FifoPerKey ==
    [][\A b \in Jobs :
          dequeued'[b] > dequeued[b] =>
             \A a \in Jobs : PutBeforeUnderSameKey(a, b) => dequeued[a] > 0]_vars

\* two jobs of one key were returned by one consumer while a job put between
\* them under another key is still queued
C23_Witness ==
    \E a, b, other \in Jobs :
        /\ PutBeforeUnderSameKey(a, b)
        /\ a < other /\ other < b
        /\ enqueued[other] \notin {NoKey, enqueued[a]}
        /\ dequeued[a] = 1 /\ dequeued[b] = 1 /\ dequeued[other] = 0
        /\ \E c \in Consumers : cresult[c] = [subenv |-> b, subenv_key |-> enqueued[b]]
        /\ \A c \in Consumers : c # 1 => cresult[c] = NoResult /\ cpc[c] = "idle"

-----------------------------------------------------------------------------
(* Properties of the dispatch: acquisitions before the call *)

\* task t moves to position p in this step
Enters(t, p) == tpc[t] # p /\ tpc'[t] = p

\* C24: every attempt of a dispatch first takes 1 unit from the request
\* budget, then tokens_needed (max_tokens + prompt token count) units from
\* the token budget, and only then issues its call; the call ends the
\* attempt, and a further call needs a new attempt with its own two
\* acquisitions.
C24_AcquireBothBeforeCall ==
    [][\A t \in Tasks :
          /\ Enters(t, "acquire_requests") =>
                /\ tpc[t] \in {"idle", "call"}
                /\ attempts'[t] = attempts[t] + 1
          /\ Enters(t, "acquire_tokens") =>
                /\ tpc[t] = "acquire_requests"
                /\ attempts'[t] = attempts[t]
                /\ \E refilled \in request_bucket..max_requests_per_minute :
                      refilled >= 1 /\ request_bucket' = refilled - 1
          /\ Enters(t, "call") =>
                /\ tpc[t] = "acquire_tokens"
                /\ attempts'[t] = attempts[t]
                /\ \E refilled \in token_bucket..max_tokens_per_minute :
                      /\ refilled >= tokens_needed[t]
                      /\ token_bucket' = refilled - tokens_needed[t]
          /\ (Enters(t, "done") \/ Enters(t, "failed")) => tpc[t] = "call"
          /\ tpc[t] # "idle" => tokens_needed'[t] = tokens_needed[t]]_vars

\* a task issues the call of its second attempt after another task's call
\* has returned
C24_Witness ==
    \E t, other \in Tasks :
        /\ tpc[t] = "call"
        /\ attempts[t] = 2
        /\ tpc[other] = "done"
        /\ token_bucket < max_tokens_per_minute

-----------------------------------------------------------------------------
(* Properties of populate: what is enqueued *)

\* C25: a populate on an empty queue puts, for every sub-environment it
\* chose, exactly n_trajs_to_sample_per_subenv jobs (1 when evaluating)
\* under the key of the environment and that sub-environment, with traj_id
\* 0, 1, ... in queue order; it creates no other key, and the size of the
\* queue is then the number of chosen sub-environments times that count.
C25_PopulateEnqueuesRepeats ==
    (Len(windows) = 1 /\ windows[1].status = "returned") =>
        LET chosen == windows[1].subenv_ids
            repeats == IF windows[1].eval THEN 1 ELSE n_trajs_to_sample_per_subenv
        IN  /\ \A i \in 1..Len(chosen) :
                  LET key == get_subenv_key(PopulatedEnv, chosen[i])
                  IN  /\ key \in DOMAIN queue_by_subenv
                      /\ queue_by_subenv[key] =
                            [t \in 1..repeats |->
                                [subenv_id |-> chosen[i], traj_id |-> t - 1]]
            /\ DOMAIN queue_by_subenv =
                  { get_subenv_key(PopulatedEnv, chosen[i]) : i \in 1..Len(chosen) }
            /\ SeqToSet(queue_keys) = DOMAIN queue_by_subenv
            /\ num_trajectories = Len(chosen) * repeats

\* a training populate chose two of three shuffled sub-environments, not in
\* the order of the list
C25_Witness ==
    /\ Len(windows) = 1
    /\ windows[1].status = "returned"
    /\ ~windows[1].eval
    /\ subenv_choice_scheme = "random"
    /\ Len(history_ids) = 3
    /\ windows[1].subenv_ids = <<2, 0>>
    /\ num_trajectories = 2 * n_trajs_to_sample_per_subenv

\* an evaluating populate chose EvalSubenvs sub-environments, one job each
C25_WitnessEval ==
    /\ Len(windows) = 1
    /\ windows[1].status = "returned"
    /\ windows[1].eval
    /\ Len(windows[1].subenv_ids) = EvalSubenvs
    /\ num_trajectories = EvalSubenvs

-----------------------------------------------------------------------------
(* Properties of the partition: the allocation of an environment *)

\* the names of the call whose first matching rule is the rule
NamesUnder(rule) ==
    SelectSeq(env_names, LAMBDA n : FirstMatchingRule(n) = rule)

\* floor(floor(total_slots * fraction(p)) / m) for the rule p the name
\* matches and the m names under p
FloorShare(name) ==
    LET p == FirstMatchingRule(name)
    IN  ((TotalSlots * p.fraction) \div FractionDen) \div Len(NamesUnder(p))

\* C26: for every fraction table whose rules match every training
\* environment, with a wildcard or with prefixes that contain an underscore
\* too, the partition does not fail on the table (it raises at most the
\* assertion error of a sum that is not exact) and the allocation it returns
\* for an environment is floor(floor(total_slots * fraction(p)) / m).
C26_AllocationIsFloorShare ==
    (partition_result # NotCalled /\ ~SomeNameUnmatched) =>
        /\ partition_result.status \in {"returned", "AssertionError"}
        /\ partition_result.status = "returned" =>
              \A n \in SeqToSet(env_names) : partition_result.value[n] = FloorShare(n)

\* the same without the wildcard and for the names whose part before the
\* first "_" is the prefix of their first matching rule
AllocationIsFloorShareOfSplitPrefix ==
    (/\ partition_result # NotCalled
     /\ \A n \in SeqToSet(env_names) :
           /\ HasKey(env_fractions, SplitFirst(n))
           /\ \A j \in 1..Len(env_fractions) :
                 MatchesRule(n, env_fractions[j]) =>
                    env_fractions[j].prefix = SplitFirst(n)) =>
        /\ partition_result.status \in {"returned", "AssertionError"}
        /\ partition_result.status = "returned" =>
              \A n \in SeqToSet(env_names) : partition_result.value[n] = FloorShare(n)

-----------------------------------------------------------------------------
(* Properties of the partition: the assertions on the sums *)

\* the sum of the shares of the prefixes: int(total_slots * fraction) each
PrefixShareSum ==
    SumSeq([i \in 1..Len(env_fractions) |->
              (TotalSlots * env_fractions[i].fraction) \div FractionDen])

\* the part of every name before its first "_" is a prefix of the table, so
\* that the loop over the environments runs to its end
EveryPrefixIsKey ==
    \A i \in 1..Len(env_names) : HasKey(env_fractions, SplitFirst(env_names[i]))

\* the sum of the allocations the loop over the environments computes
EnvShareSum ==
    SumSeq([i \in 1..Len(env_names) |->
              LET p == SplitFirst(env_names[i])
                  m == Len(SelectSeq(env_names, LAMBDA n : startswith(n, p)))
              IN  ((TotalSlots * Lookup(env_fractions, p)) \div FractionDen) \div m])

C27_WitnessPrefixShares ==
    /\ partition_result.status = "AssertionError"
    /\ FractionsSumToOne
    /\ PrefixShareSum < TotalSlots

-----------------------------------------------------------------------------
(* Properties of the next-token distribution: the answer position *)

\* the generated tokens 0..i, concatenated
GeneratedPrefix(i) ==
    Concat([p \in 1..(i + 1) |-> response.logprobs[p].token])

\* the token indices i at which the generated prefix ends with the marker
MarkerEnds ==
    { i \in 0..(Len(response.logprobs) - 1) :
        LET prefix == GeneratedPrefix(i)
            n == Len(chain_of_thought_final_string)
        IN  Len(prefix) >= n
            /\ \A c \in 1..n :
                  prefix[Len(prefix) - n + c] = chain_of_thought_final_string[c] }

\* i + 1 for the smallest such i with reasoning, 0 without; -1 if none
ClaimedAnswerPosition ==
    IF ~use_chain_of_thought THEN 0
    ELSE IF MarkerEnds = {} THEN -1
    ELSE (CHOOSE i \in MarkerEnds : \A j \in MarkerEnds : i <= j) + 1

\* probs is the mass of the candidates, renormalized over the valid tokens
IsRenormalizedMassOf(cands, probs) ==
    LET mass(k) == SumSeq([i \in 1..Len(cands) |->
                             IF strip(lower(cands[i].token)) = k
                             THEN cands[i].mass ELSE 0])
        total == SumSeq([i \in 1..Len(valid_tokens) |-> mass(valid_tokens[i])])
    IN  \A k \in SeqToSet(valid_tokens) :
           IF total = 0 THEN probs[k].num = 0
           ELSE probs[k].num * total = mass(k) * probs[k].den

\* C28: with reasoning the answer position is i + 1 for the smallest token
\* index i at which the concatenation of the generated tokens 0..i ends with
\* the marker, without reasoning it is 0; a call that ends reads the
\* candidates of the token at that position: the distribution it returns is
\* their renormalized mass, and zero when there is no such token.
C28_AnswerPositionAfterFirstMarker ==
    probs_result.status # "not_called" =>
        LET pos == ClaimedAnswerPosition
            inside == pos >= 0 /\ pos < Len(response.logprobs)
        IN  /\ probs_result.status = "returned" =>
               IsRenormalizedMassOf(
                  IF inside THEN response.logprobs[pos + 1].top_logprobs ELSE <<>>,
                  probs_result.value.probs)
            /\ probs_result.status # "returned" =>
               /\ inside
               /\ Len(response.logprobs[pos + 1].top_logprobs) < TopLogprobsRead

\* with reasoning, a distribution that is not zero was read behind the first
\* of two markers; the marker is the whole of a token
C28_Witness ==
    /\ probs_result.status = "returned"
    /\ use_chain_of_thought
    /\ Cardinality(MarkerEnds) = 2
    /\ ClaimedAnswerPosition = 1
    /\ \E k \in SeqToSet(valid_tokens) : probs_result.value.probs[k].num > 0

\* with reasoning, a distribution that is not zero was read behind a marker
\* that is spread over two tokens
C28_WitnessSplitMarker ==
    /\ probs_result.status = "returned"
    /\ use_chain_of_thought
    /\ ClaimedAnswerPosition = 3
    /\ response.logprobs[2].token = <<"#">>
    /\ \E k \in SeqToSet(valid_tokens) : probs_result.value.probs[k].num > 0

-----------------------------------------------------------------------------
(* Properties of create_state: the history and visited_states *)

\* C29: create_state appends the scripted messages of the state, in their
\* order and behind the inherited messages: the history of the state it
\* returns holds the inherited messages unchanged, followed by as many
\* messages as the state has scripted ones; it records the state's name in
\* visited_states, so the name of every state returned by the constructor or
\* by an advance is in visited_states from then on.
C29_CreateStateAppendsAndRecords ==
    /\ current_state.name \in visited_states
    /\ prev_state # NoState => prev_state.name \in visited_states
    /\ outcome = "constructed" =>
          \E picks \in PickSeqs :
             LET created == InitialMessageList \o FormattedScript("initial_state", picks)
                 history == heap[current_state.history]
             IN  /\ IsPrefix(created, history)
                 /\ \A i \in (Len(created) + 1)..Len(history) :
                       history[i] \in CallerMessages
    /\ \A transition \in TransitionLabels, picks \in PickSeqs :
          LET r == post_transition_processing(current_state, transition, heap,
                                              visited_states, picks)
              inherited == heap[current_state.history]
          IN  /\ visited_states \subseteq r.visited
              /\ (r.ok /\ ~r.self_loop) =>
                    LET history == r.heap[r.state.history]
                        scripted == state_config[r.state.name].history
                    IN  /\ Len(history) = Len(inherited) + Len(scripted)
                        /\ SubSeq(history, 1, Len(inherited)) = inherited
                        /\ SubSeq(history, Len(inherited) + 1, Len(history))
                              = FormattedScript(r.state.name, picks)
                        /\ \A i \in 1..Len(scripted) :
                              history[Len(inherited) + i].role = scripted[i].role
                        /\ r.state.name \in r.visited

\* an advance created a state of two scripted messages behind a history
\* that held a message of the caller
C29_Witness ==
    /\ outcome = "new_state"
    /\ current_state.name = "s1"
    /\ prev_state.name = "initial_state"
    /\ CallerAppended(prev_history) = 1
    /\ Len(heap[current_state.history]) = Len(prev_history) + 2
    /\ visited_states = {"initial_state", "s1"}

-----------------------------------------------------------------------------
(* Properties of create_state: the format variables *)

\* the two alternatives of the conversation
Alternatives == {TheFormatVars["char_action1"], TheFormatVars["char_action2"]}

\* the format variables with char_action set to the alternative
WithChoice(alternative) ==
    [v \in DOMAIN TheFormatVars \cup {"char_action"} |->
        IF v = "char_action" THEN alternative ELSE TheFormatVars[v]]

\* C30: Environment.format_vars is what the conversation was given, after
\* the construction and after every advance: the choice between
\* char_action1 and char_action2 is written into a copy made for the
\* message; every scripted message is formatted with a choice of its own,
\* and the chosen value is one of the two alternatives.
C30_FormatVarsNeverModified ==
    /\ format_vars = TheFormatVars
    /\ current_state.format_vars["char_action"] \in Alternatives
    /\ \A v \in DOMAIN TheFormatVars : current_state.format_vars[v] = TheFormatVars[v]
    /\ \A transition \in TransitionLabels, picks \in PickSeqs :
          LET r == post_transition_processing(current_state, transition, heap,
                                              visited_states, picks)
              inherited == heap[current_state.history]
          IN  /\ FormatVarsAfterAdvance(current_state, transition, picks) = TheFormatVars
              /\ (r.ok /\ ~r.self_loop) =>
                    LET history == r.heap[r.state.history]
                        scripted == state_config[r.state.name].history
                        chosen(i) == IF picks[i] = 1 THEN TheFormatVars["char_action1"]
                                     ELSE TheFormatVars["char_action2"]
                    IN  /\ \A i \in 1..Len(scripted) :
                              history[Len(inherited) + i].content =
                                 strip(format_map(scripted[i].content, WithChoice(chosen(i))))
                        /\ r.state.format_vars["char_action"] \in Alternatives
                        /\ scripted # <<>> =>
                              r.state.format_vars = WithChoice(chosen(Len(scripted)))

\* an advance created a state whose two scripted messages were formatted
\* with different alternatives
C30_Witness ==
    /\ outcome = "new_state"
    /\ current_state.name = "s1"
    /\ Len(heap[current_state.history]) = Len(prev_history) + 2
    /\ heap[current_state.history][Len(prev_history) + 1].content = <<"you", "smokes">>
    /\ heap[current_state.history][Len(prev_history) + 2].content = <<"abstains">>
    /\ current_state.format_vars["char_action"] = "abstains"
    /\ format_vars = TheFormatVars

-----------------------------------------------------------------------------
(* Properties of a rollout *)

\* the advance calls of the rollout so far: every call that returned added 1
\* to turns, and a call that raised was the last one
AdvanceCalls == current_state.turns + (IF outcome = "error" THEN 1 ELSE 0)

\* the rollout is over: is_terminal holds, or an advance raised
RolloutEnded == is_terminal(current_state) \/ outcome = "error"

\* C31: a rollout from the initial state that advances until is_terminal
\* holds makes, with max_turns >= 0, at most max_turns advance calls,
\* whatever the labels and the transition tables, tables of self-loops only
\* included: every step of the rollout is one more call, made while the
\* rollout is not over, and the calls never exceed max_turns.
C31_RolloutEndsWithinMaxTurns ==
    /\ [](max_turns >= 0 => AdvanceCalls <= max_turns)
    /\ [](RolloutEnded \/ current_state.turns < max_turns)
    /\ [][~RolloutEnded /\ AdvanceCalls' = AdvanceCalls + 1]_vars

\* a rollout of self-loops ended by its turns, after max_turns advances
C31_Witness ==
    /\ max_turns = MaxAdvances
    /\ current_state.turns = max_turns
    /\ ~current_state.terminal
    /\ outcome = "self_loop"
    /\ current_state.name = "initial_state"
    /\ \A l \in DOMAIN current_state.valid_transitions :
          current_state.valid_transitions[l].next_state = current_state.name
    /\ is_terminal(current_state)

-----------------------------------------------------------------------------
(* Properties of the constructor: the caller's list *)

\* C32: the list of initial messages the constructor was given is not the
\* history of the initial state: it holds after the construction, and after
\* every later append to a history, what it held when it was passed in.
C32_InitialMessagesNotAliased ==
    /\ heap[initial_messages] = InitialMessageList
    /\ outcome = "constructed" => current_state.history # initial_messages

-----------------------------------------------------------------------------
(* Properties of the budgets: nothing is refunded *)

\* what the refill of a budget can add after the time that has passed
RefillBound(bucket, capacity, time_passed) ==
    IF bucket + (time_passed * capacity) \div TicksPerMinute <= capacity
    THEN bucket + (time_passed * capacity) \div TicksPerMinute
    ELSE capacity

\* C33: what an attempt has taken from the budgets is not given back: the
\* step in which an attempt's call fails or returns leaves both budgets as
\* they are, a budget grows only by the refill of an acquire and by no more
\* than the time passed allows, so a dispatch of k attempts has deducted k
\* request units and k * tokens_needed token units; while a task waits for
\* tokens and no task is acquiring a request, the request budget stays as it
\* is.
C33_ConsumedBudgetNotRefunded ==
    [][/\ \A t \in Tasks :
             (tpc[t] = "call" /\ tpc'[t] # "call") =>
                 /\ request_bucket' = request_bucket
                 /\ token_bucket' = token_bucket
       /\ request_bucket' <= RefillBound(request_bucket, max_requests_per_minute,
                                         time_passed_request)
       /\ token_bucket' <= RefillBound(token_bucket, max_tokens_per_minute,
                                       time_passed_token)
       /\ (\A u \in Tasks : tpc[u] # "acquire_requests") =>
             request_bucket' = request_bucket
       /\ (\A u \in Tasks : tpc[u] # "acquire_tokens") =>
             token_bucket' = token_bucket
       /\ \A t \in Tasks :
             Enters(t, "acquire_tokens") => request_bucket' < max_requests_per_minute
       /\ \A t \in Tasks :
             Enters(t, "call") =>
                token_bucket' <= max_tokens_per_minute - tokens_needed[t]]_vars

\* a task on its second attempt holds its request unit and waits for tokens
\* that the budget does not have
C33_Witness ==
    \E t \in Tasks :
        /\ tpc[t] = "acquire_tokens"
        /\ attempts[t] = 2
        /\ time_passed_token = 0
        /\ token_bucket < tokens_needed[t]
        /\ tokens_needed[t] <= max_tokens_per_minute
        /\ request_bucket < max_requests_per_minute

\* the attempts of task t that acquired their request unit, their tokens
RequestAcquisitions(t) ==
    IF tpc[t] \in {"idle", "acquire_requests"} THEN (IF attempts[t] > 0 THEN attempts[t] - 1 ELSE 0)
    ELSE attempts[t]
TokenAcquisitions(t) ==
    IF tpc[t] \in {"idle", "acquire_requests", "acquire_tokens"}
    THEN (IF attempts[t] > 0 THEN attempts[t] - 1 ELSE 0)
    ELSE attempts[t]

\* while the clock stands still the budgets are their capacities less what
\* the attempts so far have acquired, failed attempts included
FrozenClockTotals ==
    /\ request_bucket = max_requests_per_minute
                          - SumSeq([i \in 1..Len(TaskList) |-> RequestAcquisitions(TaskList[i])])
    /\ token_bucket = max_tokens_per_minute
                        - SumSeq([i \in 1..Len(TaskList) |->
                                    TokenAcquisitions(TaskList[i]) * tokens_needed[TaskList[i]]])

\* a dispatch of two attempts, the first failed, has taken two request units
\* and twice its tokens
FrozenClockTwoAttempts ==
    \E t \in Tasks :
        /\ attempts[t] = 2 /\ tpc[t] = "call"
        /\ request_bucket = max_requests_per_minute - 2
        /\ token_bucket = max_tokens_per_minute - 2 * tokens_needed[t]

-----------------------------------------------------------------------------
(* Properties of the budgets: an amount above the capacity *)

\* task t has been dispatched with more tokens than the token budget holds
AboveCapacity(t) == tpc[t] # "idle" /\ tokens_needed[t] > max_tokens_per_minute

\* C34: an acquire of more than the budget's capacity never returns: every
\* refill caps the budget at its capacity, so the task stays in its acquire
\* loop on its first attempt, nothing is raised or returned for it, the retry
\* ceiling is not reached, and the request unit it acquired is not given
\* back while it polls.
C34_AcquireAboveCapacityNeverReturns ==
    /\ [](/\ token_bucket <= max_tokens_per_minute
          /\ \A t \in Tasks :
                AboveCapacity(t) =>
                   /\ tpc[t] \in {"acquire_requests", "acquire_tokens"}
                   /\ attempts[t] = 1
                   /\ attempts[t] < max_retries
                   /\ returned[t] = NoValue
                   /\ \A i \in 1..Len(completed) : completed[i] # t)
    /\ [][\A t \in Tasks :
             (AboveCapacity(t) /\ tpc[t] = "acquire_tokens") =>
                 /\ tpc'[t] = "acquire_tokens"
                 /\ tokens_needed'[t] = tokens_needed[t]
                 /\ request_bucket' <= RefillBound(request_bucket, max_requests_per_minute,
                                                   time_passed_request)
                 /\ (\A u \in Tasks : tpc[u] # "acquire_requests") =>
                        request_bucket' = request_bucket]_vars

\* the task polls a token budget that is as full as it gets, holding its
\* request unit, while the other task has come and gone
C34_Witness ==
    \E t \in Tasks :
        /\ AboveCapacity(t)
        /\ tpc[t] = "acquire_tokens"
        /\ token_bucket = max_tokens_per_minute
        /\ time_passed_token = 0
        /\ time_passed_request = 0
        /\ request_bucket < max_requests_per_minute
        /\ \E u \in Tasks \ {t} : tpc[u] = "done"

-----------------------------------------------------------------------------
(* Properties of the batch operations: a task that exhausts its attempts *)

\* the batch operation has returned its lists
BatchReturnedResults == batch_result # Pending /\ batch_result # Raised

\* C35: the tasks of a batch are retried one independently of the others: a
\* step in which a task begins another attempt leaves every other task's
\* attempts, position and result as they were. When a task has used up its
\* attempts the batch operation never returns results: it raises, whatever
\* the other tasks returned, and a batch that raised stays raised and
\* carries no list.
C35_ExhaustedTaskFailsWholeBatch ==
    /\ []((\E t \in Tasks : tpc[t] = "failed") => ~BatchReturnedResults)
    /\ [](batch_result = Raised =>
             /\ \E t \in Tasks : tpc[t] = "failed" /\ attempts[t] = max_retries
             /\ DOMAIN batch_result = {"raised"})
    /\ [](BatchReturnedResults => \A t \in Tasks : tpc[t] = "done")
    /\ [][/\ batch_result = Raised => batch_result' = Raised
          /\ \A t \in Tasks :
                attempts'[t] # attempts[t] =>
                   \A u \in Tasks \ {t} :
                      /\ attempts'[u] = attempts[u]
                      /\ tpc'[u] = tpc[u]
                      /\ returned'[u] = returned[u]]_vars

\* the batch raised although a task that needed a different number of
\* attempts had returned its result
C35_Witness ==
    \E t, u \in Tasks :
        /\ batch_result = Raised
        /\ tpc[t] = "failed" /\ attempts[t] = max_retries
        /\ tpc[u] = "done" /\ attempts[u] = 2 /\ returned[u] # NoValue

====
